---- MODULE Spec2Model ----
(***************************************************************************)
(* MetricsService (src/src/common/metrics/metrics.service.ts): the         *)
(* in-process metrics store with its label-keyed counters, histograms and  *)
(* gauges and its bounded event log.                                       *)
(*                                                                         *)
(* Numbers.  A JavaScript number n is modelled by the integer 10 * n       *)
(* (fixed point, one decimal digit), so that the bucket bounds 0.1, 0.5    *)
(* and 2.5 are integers: Scale is the number 1, and a histogram count of   *)
(* k observations is k * Scale.  NaN is not among the inputs.              *)
(*                                                                         *)
(* Strings.  A string is a sequence of tokens (characters, or longer       *)
(* pieces that the code never looks into); concatenation is \o.            *)
(*                                                                         *)
(* Maps.  A JavaScript Map is a sequence of entries [k, v] in insertion    *)
(* order, with at most one entry per key.                                  *)
(***************************************************************************)
EXTENDS Integers, Sequences, FiniteSets, TLC

VARIABLES counters, histograms, gauges, metrics, calls, wiped, budget,
          recs, resp, handlers, held

vars == <<counters, histograms, gauges, metrics, calls, wiped, budget,
          recs, resp, handlers, held>>

----------------------------------------------------------------------------
(* Bounds of the model *)

\* calls made from the constructed service
MaxOps == 3
\* calls made from the service whose event log is one short of its capacity
MaxWarmOps == 2
\* calls one request handler makes
MaxHandlerCalls == 2
\* calls made with the names and labels that probe the canonical key
MaxKeyOps == 2
\* calls made on the entities of two names
MaxFrameOps == 2
\* recorder calls and summary requests
MaxSummaryOps == 3
\* calls made while a returned value is held
MaxSnapOps == 3
\* recorder calls and requests made in the application
MaxAppOps == 3

----------------------------------------------------------------------------
(* Numbers *)

Scale == 10
Infinity == 1000000
MaxMetrics == 1000

\* the fixed bounds 0.1, 0.5, 1, 2.5, 5, 10, +Inf
buckets == <<1, 5, 10, 25, 50, 100, Infinity>>

\* fault: value < bucket
Leq_strict(value, bucket) == bucket = Infinity \/ value < bucket

\* value <= bucket
Leq(value, bucket) == bucket = Infinity \/ value <= bucket

\* an optional number argument: omitted (undefined), or given
Omitted == [given |-> FALSE, v |-> 0]
Given(n) == [given |-> TRUE, v |-> n]
\* `value: number = 1`
Default1(arg) == IF arg.given THEN arg.v ELSE Scale

----------------------------------------------------------------------------
(* Strings *)

\* the collation order of the tokens the model uses
Alphabet == <<"|", ",", "=", "\"", "1", "2", "a", "b", "endpoint", "event",
              "file_type", "k", "m", "method", "operation", "service",
              "status_code", "success", "table", "type">>

Rank(c) == CHOOSE i \in 1..Len(Alphabet) : Alphabet[i] = c

\* a.localeCompare(b) < 0, = 0, > 0 as -1, 0, 1
RECURSIVE localeCompare(_, _)
localeCompare(a, b) ==
    IF a = <<>> /\ b = <<>> THEN 0
    ELSE IF a = <<>> THEN -1
    ELSE IF b = <<>> THEN 1
    ELSE IF Rank(Head(a)) < Rank(Head(b)) THEN -1
    ELSE IF Rank(Head(a)) > Rank(Head(b)) THEN 1
    ELSE localeCompare(Tail(a), Tail(b))

\* parts.join(sep)
RECURSIVE join(_, _)
join(parts, sep) ==
    IF parts = <<>> THEN <<>>
    ELSE IF Len(parts) = 1 THEN parts[1]
    ELSE parts[1] \o sep \o join(Tail(parts), sep)

\* the decimal digits of a natural number
Digits == <<"0", "1", "2", "3", "4", "5", "6", "7", "8", "9">>

RECURSIVE digits(_)
digits(n) ==
    IF n < Len(Digits) THEN <<Digits[n + 1]>>
    ELSE digits(n \div Len(Digits)) \o <<Digits[(n % Len(Digits)) + 1]>>

\* n.toString() and `${n}`: "200", "0.5", "-3", "Infinity"
RECURSIVE numToString(_)
numToString(n) ==
    IF n = Infinity THEN <<"Infinity">>
    ELSE IF n < 0 THEN <<"-">> \o numToString(0 - n)
    ELSE IF n % Scale = 0 THEN digits(n \div Scale)
    ELSE digits(n \div Scale) \o <<".">> \o digits(n % Scale)

\* a / b, for operands whose quotient has at most one decimal digit
Quotient(a, b) == (a * Scale) \div b

\* str.split(sep) for a one-token separator: the pieces between the
\* occurrences of sep, in order
split(str, sep) ==
    LET at == {i \in 1..Len(str) : str[i] = sep}
        n == Cardinality(at)
        pos(k) == CHOOSE i \in at : Cardinality({j \in at : j < i}) = k - 1
        first(k) == IF k = 1 THEN 1 ELSE pos(k - 1) + 1
        last(k) == IF k = n + 1 THEN Len(str) ELSE pos(k) - 1
    IN [k \in 1..(n + 1) |-> SubSeq(str, first(k), last(k))]

\* str.replace(/c/g, '')
RECURSIVE removeAll(_, _)
removeAll(str, c) ==
    IF str = <<>> THEN <<>>
    ELSE IF Head(str) = c THEN removeAll(Tail(str), c)
    ELSE <<Head(str)>> \o removeAll(Tail(str), c)

----------------------------------------------------------------------------
(* Labels: Record<string, string> | undefined.  pairs are the entries     *)
(* <<key, value>> in the order Object.entries gives them (insertion order; *)
(* the keys are distinct and none is an array index).                      *)

NoLabels == [present |-> FALSE, pairs |-> <<>>]
Labels(pairs) == [present |-> TRUE, pairs |-> pairs]

\* entries.sort(([a], [b]) => a.localeCompare(b)): a stable sort by key
RECURSIVE insertSorted(_, _)
insertSorted(sorted, e) ==
    IF sorted = <<>> THEN <<e>>
    ELSE IF localeCompare(e[1], Head(sorted)[1]) < 0 THEN <<e>> \o sorted
    ELSE <<Head(sorted)>> \o insertSorted(Tail(sorted), e)

RECURSIVE sortEntries(_)
sortEntries(entries) ==
    IF entries = <<>> THEN <<>>
    ELSE insertSorted(sortEntries(SubSeq(entries, 1, Len(entries) - 1)),
                      entries[Len(entries)])

\* `${key}="${value}"`
formatPair(e) == e[1] \o <<"=", "\"">> \o e[2] \o <<"\"">>

\* fault: only missing labels give the bare name, {} gives `name|`
getKey_emptyKept(name, labels) ==
    IF ~labels.present THEN name
    ELSE LET sorted == sortEntries(labels.pairs)
         IN name \o <<"|">>
            \o join([i \in 1..Len(sorted) |-> formatPair(sorted[i])], <<",">>)

\* fault: the entries are joined in insertion order, unsorted
getKey_unsorted(name, labels) ==
    IF ~labels.present \/ Len(labels.pairs) = 0 THEN name
    ELSE name \o <<"|">>
         \o join([i \in 1..Len(labels.pairs) |-> formatPair(labels.pairs[i])],
                 <<",">>)

getKey(name, labels) ==
    IF ~labels.present \/ Len(labels.pairs) = 0 THEN name
    ELSE LET sorted == sortEntries(labels.pairs)
         IN name \o <<"|">>
            \o join([i \in 1..Len(sorted) |-> formatPair(sorted[i])], <<",">>)

----------------------------------------------------------------------------
(* Map<K, V> *)

MapHas(m, k) == \E i \in 1..Len(m) : m[i].k = k

MapIndex(m, k) == CHOOSE i \in 1..Len(m) : m[i].k = k

\* m.get(k), for a key m has
MapGet(m, k) == m[MapIndex(m, k)].v

\* m.set(k, v): a present key keeps its place
MapSet(m, k, v) ==
    IF MapHas(m, k)
    THEN [m EXCEPT ![MapIndex(m, k)] = [k |-> k, v |-> v]]
    ELSE Append(m, [k |-> k, v |-> v])

MapKeys(m) == {m[i].k : i \in 1..Len(m)}

----------------------------------------------------------------------------
(* The service: its four fields as one record *)

EmptyStore == [counters |-> <<>>, histograms |-> <<>>, gauges |-> <<>>,
               metrics |-> <<>>]

Store == [counters |-> counters, histograms |-> histograms,
          gauges |-> gauges, metrics |-> metrics]

\* the event recordMetric pushes (the timestamp, a wall-clock reading that
\* nothing reads back, is left out)
Metric(name, value, labels) == [name |-> name, value |-> value, labels |-> labels]

\* fault: slice(0, n), the first n kept
sliceLast_first(s, n) == IF Len(s) <= n THEN s ELSE SubSeq(s, 1, n)

\* this.metrics.slice(-n)
sliceLast(s, n) == IF Len(s) <= n THEN s ELSE SubSeq(s, Len(s) - n + 1, Len(s))

\* fault: cutting the log also drops the gauges
recordMetric_dropsGauges(s, name, value, labels) ==
    LET pushed == Append(s.metrics, Metric(name, value, labels))
    IN IF Len(pushed) > MaxMetrics
       THEN [s EXCEPT !.metrics = sliceLast(pushed, MaxMetrics), !.gauges = <<>>]
       ELSE [s EXCEPT !.metrics = pushed]

\* fault: the log is never cut
recordMetric_unbounded(s, name, value, labels) ==
    [s EXCEPT !.metrics = Append(@, Metric(name, value, labels))]

recordMetric(s, name, value, labels) ==
    LET pushed == Append(s.metrics, Metric(name, value, labels))
    IN [s EXCEPT !.metrics = IF Len(pushed) > MaxMetrics
                             THEN sliceLast(pushed, MaxMetrics)
                             ELSE pushed]

\* fault: an existing counter is overwritten, not added to
incrementCounter_overwrite(s, name, labels, arg) ==
    LET value == Default1(arg)
        key == getKey(name, labels)
        s1 == [s EXCEPT !.counters =
                  MapSet(@, key, [value |-> value, labels |-> labels])]
    IN recordMetric(s1, name, value, labels)

incrementCounter(s, name, labels, arg) ==
    LET value == Default1(arg)
        key == getKey(name, labels)
        s1 == IF MapHas(s.counters, key)
              THEN [s EXCEPT !.counters =
                       MapSet(@, key, [value |-> MapGet(@, key).value + value,
                                       labels |-> MapGet(@, key).labels])]
              ELSE [s EXCEPT !.counters =
                       MapSet(@, key, [value |-> value, labels |-> labels])]
    IN recordMetric(s1, name, value, labels)

\* this.counters.get(key)?.value || 0
getCounter(s, name, labels) ==
    LET key == getKey(name, labels)
    IN IF MapHas(s.counters, key) THEN MapGet(s.counters, key).value ELSE 0

----------------------------------------------------------------------------
(* Histograms *)

\* fault: only the first bound the value satisfies is counted
updateBuckets_first(bmap, value, i) ==
    LET hit == {k \in i..Len(buckets) : Leq(value, buckets[k])}
        bucket == buckets[CHOOSE k \in hit : \A k2 \in hit : k <= k2]
        currentCount == IF MapHas(bmap, bucket) THEN MapGet(bmap, bucket) ELSE 0
    IN IF hit = {} THEN bmap ELSE MapSet(bmap, bucket, currentCount + Scale)

\* the loop over the fixed bounds, from bound number i on
RECURSIVE updateBuckets(_, _, _)
updateBuckets(bmap, value, i) ==
    IF i > Len(buckets) THEN bmap
    ELSE LET bucket == buckets[i]
             currentCount == IF MapHas(bmap, bucket) THEN MapGet(bmap, bucket) ELSE 0
         IN updateBuckets(IF Leq(value, bucket)
                          THEN MapSet(bmap, bucket, currentCount + Scale)
                          ELSE bmap,
                          value, i + 1)

\* fault: the histogram is stored under the name alone
recordHistogram_keyByName(s, name, value, labels) ==
    LET key == name
        histogram == IF MapHas(s.histograms, key)
                     THEN MapGet(s.histograms, key)
                     ELSE [count |-> 0, sum |-> 0, buckets |-> <<>>,
                           labels |-> labels]
        updated == [count |-> histogram.count + Scale,
                    sum |-> histogram.sum + value,
                    buckets |-> updateBuckets(histogram.buckets, value, 1),
                    labels |-> histogram.labels]
        s1 == [s EXCEPT !.histograms = MapSet(@, key, updated)]
    IN recordMetric(s1, name, value, labels)

\* fault: sum holds the last value, not the total
recordHistogram_lastValue(s, name, value, labels) ==
    LET key == getKey(name, labels)
        histogram == IF MapHas(s.histograms, key)
                     THEN MapGet(s.histograms, key)
                     ELSE [count |-> 0, sum |-> 0, buckets |-> <<>>,
                           labels |-> labels]
        updated == [count |-> histogram.count + Scale,
                    sum |-> value,
                    buckets |-> updateBuckets(histogram.buckets, value, 1),
                    labels |-> histogram.labels]
        s1 == [s EXCEPT !.histograms = MapSet(@, key, updated)]
    IN recordMetric(s1, name, value, labels)

recordHistogram(s, name, value, labels) ==
    LET key == getKey(name, labels)
        histogram == IF MapHas(s.histograms, key)
                     THEN MapGet(s.histograms, key)
                     ELSE [count |-> 0, sum |-> 0, buckets |-> <<>>,
                           labels |-> labels]
        updated == [count |-> histogram.count + Scale,
                    sum |-> histogram.sum + value,
                    buckets |-> updateBuckets(histogram.buckets, value, 1),
                    labels |-> histogram.labels]
        s1 == [s EXCEPT !.histograms = MapSet(@, key, updated)]
    IN recordMetric(s1, name, value, labels)

\* Histogram | undefined
Undefined == [defined |-> FALSE]
Defined(h) == [defined |-> TRUE, h |-> h]

\* fault: an absent histogram reads as an empty one
getHistogram_empty(s, name, labels) ==
    LET key == getKey(name, labels)
    IN IF MapHas(s.histograms, key) THEN Defined(MapGet(s.histograms, key))
       ELSE Defined([count |-> 0, sum |-> 0, buckets |-> <<>>,
                     labels |-> labels])

getHistogram(s, name, labels) ==
    LET key == getKey(name, labels)
    IN IF MapHas(s.histograms, key) THEN Defined(MapGet(s.histograms, key))
       ELSE Undefined

----------------------------------------------------------------------------
(* Gauges *)

\* fault: the gauge is set and no event is recorded
setGauge_noEvent(s, name, value, labels) ==
    LET key == getKey(name, labels)
    IN [s EXCEPT !.gauges = MapSet(@, key, value)]

setGauge(s, name, value, labels) ==
    LET key == getKey(name, labels)
        s1 == [s EXCEPT !.gauges = MapSet(@, key, value)]
    IN recordMetric(s1, name, value, labels)

\* this.gauges.get(key) || 0
getGauge(s, name, labels) ==
    LET key == getKey(name, labels)
    IN IF MapHas(s.gauges, key) THEN MapGet(s.gauges, key) ELSE 0

\* fault: the current value is not read, the gauge starts from 0
incrementGauge_noRead(s, name, arg, labels) ==
    LET value == Default1(arg)
        current == 0
    IN setGauge(s, name, current + value, labels)

incrementGauge(s, name, arg, labels) ==
    LET value == Default1(arg)
        current == getGauge(s, name, labels)
    IN setGauge(s, name, current + value, labels)

\* fault: the amount is added
decrementGauge_adds(s, name, arg, labels) ==
    LET value == Default1(arg)
        current == getGauge(s, name, labels)
    IN setGauge(s, name, current + value, labels)

decrementGauge(s, name, arg, labels) ==
    LET value == Default1(arg)
        current == getGauge(s, name, labels)
    IN setGauge(s, name, current - value, labels)

----------------------------------------------------------------------------
(* Business and system recorders *)

\* fault: only status codes above 400 count as errors
recordApiCall_above400(s, endpoint, method, statusCode, duration) ==
    LET labels == Labels(<< <<<<"endpoint">>, endpoint>>,
                            <<<<"method">>, method>>,
                            <<<<"status_code">>, numToString(statusCode)>> >>)
        s1 == incrementCounter(s, <<"api_requests_total">>, labels, Omitted)
        s2 == recordHistogram(s1, <<"api_request_duration_seconds">>,
                              Quotient(duration, 1000 * Scale), labels)
    IN IF statusCode > 400 * Scale
       THEN incrementCounter(s2, <<"api_errors_total">>, labels, Omitted)
       ELSE s2

recordApiCall(s, endpoint, method, statusCode, duration) ==
    LET labels == Labels(<< <<<<"endpoint">>, endpoint>>,
                            <<<<"method">>, method>>,
                            <<<<"status_code">>, numToString(statusCode)>> >>)
        s1 == incrementCounter(s, <<"api_requests_total">>, labels, Omitted)
        s2 == recordHistogram(s1, <<"api_request_duration_seconds">>,
                              Quotient(duration, 1000 * Scale), labels)
    IN IF statusCode >= 400 * Scale
       THEN incrementCounter(s2, <<"api_errors_total">>, labels, Omitted)
       ELSE s2

recordDatabaseOperation(s, operation, table, duration) ==
    LET labels == Labels(<< <<<<"operation">>, operation>>,
                            <<<<"table">>, table>> >>)
        s1 == incrementCounter(s, <<"database_operations_total">>, labels, Omitted)
    IN recordHistogram(s1, <<"database_operation_duration_seconds">>,
                       Quotient(duration, 1000 * Scale), labels)

\* success.toString()
boolToString(b) == IF b THEN <<"true">> ELSE <<"false">>

recordAuthEvent(s, event, success) ==
    LET labels == Labels(<< <<<<"event">>, event>>,
                            <<<<"success">>, boolToString(success)>> >>)
    IN incrementCounter(s, <<"auth_events_total">>, labels, Omitted)

\* `if (size)`: an omitted size and the size 0 are both falsy
recordFileOperation(s, operation, fileType, size) ==
    LET labels == Labels(<< <<<<"operation">>, operation>>,
                            <<<<"file_type">>, fileType>> >>)
        s1 == incrementCounter(s, <<"file_operations_total">>, labels, Omitted)
    IN IF size.given /\ size.v # 0
       THEN recordHistogram(s1, <<"file_size_bytes">>, size.v, labels)
       ELSE s1

\* process.memoryUsage()
MemoryUsage(heapUsed, heapTotal, rss, external) ==
    [heapUsed |-> heapUsed, heapTotal |-> heapTotal, rss |-> rss,
     external |-> external]

recordMemoryUsage(s, usage) ==
    LET s1 == setGauge(s, <<"nodejs_memory_heap_used_bytes">>, usage.heapUsed, NoLabels)
        s2 == setGauge(s1, <<"nodejs_memory_heap_total_bytes">>, usage.heapTotal, NoLabels)
        s3 == setGauge(s2, <<"nodejs_memory_rss_bytes">>, usage.rss, NoLabels)
    IN setGauge(s3, <<"nodejs_memory_external_bytes">>, usage.external, NoLabels)

\* fault: the misses are counted as total
recordCacheHitRate_missIsTotal(s, service, hits, total) ==
    LET hitRate == IF total > 0 THEN Quotient(hits, total) ELSE 0
        s1 == setGauge(s, <<"cache_hit_rate">>, hitRate,
                       Labels(<< <<<<"service">>, service>> >>))
        s2 == incrementCounter(s1, <<"cache_operations_total">>,
                               Labels(<< <<<<"service">>, service>>,
                                         <<<<"type">>, <<"hit">>>> >>),
                               Given(hits))
    IN incrementCounter(s2, <<"cache_operations_total">>,
                        Labels(<< <<<<"service">>, service>>,
                                  <<<<"type">>, <<"miss">>>> >>),
                        Given(total))

recordCacheHitRate(s, service, hits, total) ==
    LET hitRate == IF total > 0 THEN Quotient(hits, total) ELSE 0
        s1 == setGauge(s, <<"cache_hit_rate">>, hitRate,
                       Labels(<< <<<<"service">>, service>> >>))
        s2 == incrementCounter(s1, <<"cache_operations_total">>,
                               Labels(<< <<<<"service">>, service>>,
                                         <<<<"type">>, <<"hit">>>> >>),
                               Given(hits))
    IN incrementCounter(s2, <<"cache_operations_total">>,
                        Labels(<< <<<<"service">>, service>>,
                                  <<<<"type">>, <<"miss">>>> >>),
                        Given(total - hits))

----------------------------------------------------------------------------
(* Reset and export *)

\* obj[key] = value on the entries of an object: a present key keeps its
\* place (no key of the model is an array index)
RECURSIVE assign(_, _, _)
assign(pairs, key, value) ==
    IF pairs = <<>> THEN << <<key, value>> >>
    ELSE IF Head(pairs)[1] = key THEN << <<key, value>> >> \o Tail(pairs)
    ELSE <<Head(pairs)>> \o assign(Tail(pairs), key, value)

formatLabels(labels) ==
    IF ~labels.present \/ Len(labels.pairs) = 0 THEN <<>>
    ELSE <<"{">>
         \o join([i \in 1..Len(labels.pairs) |-> formatPair(labels.pairs[i])],
                 <<",">>)
         \o <<"}">>

\* the loop of parseLabels over the pairs, from pair number i on
RECURSIVE parsePairs(_, _, _)
parsePairs(labels, pairs, i) ==
    IF i > Len(pairs) THEN labels
    ELSE LET parts == split(pairs[i], "=")
             key == parts[1]
             hasValue == Len(parts) >= 2
         IN parsePairs(IF key # <<>> /\ hasValue /\ parts[2] # <<>>
                       THEN assign(labels, key, removeAll(parts[2], "\""))
                       ELSE labels,
                       pairs, i + 1)

parseLabels(labelStr) == Labels(parsePairs(<<>>, split(labelStr, ","), 1))

\* output += line, for every line in turn
RECURSIVE concat(_)
concat(strs) == IF strs = <<>> THEN <<>> ELSE Head(strs) \o concat(Tail(strs))

\* the lines of one counter
counterLines(key, counter) ==
    LET name == split(key, "|")[1]
        labels == formatLabels(counter.labels)
    IN <<"# TYPE ">> \o name \o <<" counter", "\n">>
       \o name \o labels \o <<" ">> \o numToString(counter.value) \o <<"\n">>

\* { ...histogram.labels, le: bucketLabel }
withLe(labels, bucketLabel) == Labels(assign(labels.pairs, <<"le">>, bucketLabel))

\* the lines of the entries of histogram.buckets
bucketLines(name, histogram) ==
    concat([i \in 1..Len(histogram.buckets) |->
              LET bucket == histogram.buckets[i].k
                  bucketLabel == IF bucket = Infinity THEN <<"+Inf">>
                                 ELSE numToString(bucket)
              IN name \o <<"_bucket">>
                 \o formatLabels(withLe(histogram.labels, bucketLabel))
                 \o <<" ">> \o numToString(histogram.buckets[i].v) \o <<"\n">>])

histogramLines(key, histogram) ==
    LET name == split(key, "|")[1]
        labels == formatLabels(histogram.labels)
    IN <<"# TYPE ">> \o name \o <<" histogram", "\n">>
       \o name \o <<"_count">> \o labels \o <<" ">>
       \o numToString(histogram.count) \o <<"\n">>
       \o name \o <<"_sum">> \o labels \o <<" ">>
       \o numToString(histogram.sum) \o <<"\n">>
       \o bucketLines(name, histogram)

gaugeLines(key, value) ==
    LET parts == split(key, "|")
        name == parts[1]
        labels == IF Len(parts) >= 2 /\ parts[2] # <<>>
                  THEN parseLabels(parts[2]) ELSE NoLabels
    IN <<"# TYPE ">> \o name \o <<" gauge", "\n">>
       \o name \o formatLabels(labels) \o <<" ">> \o numToString(value)
       \o <<"\n">>

getPrometheusMetrics(s) ==
    concat([i \in 1..Len(s.counters) |->
              counterLines(s.counters[i].k, s.counters[i].v)])
    \o concat([i \in 1..Len(s.histograms) |->
                 histogramLines(s.histograms[i].k, s.histograms[i].v)])
    \o concat([i \in 1..Len(s.gauges) |->
                 gaugeLines(s.gauges[i].k, s.gauges[i].v)])

\* a / b where the quotient is only read, never stored: the exact fraction
Fraction(a, b) == [num |-> a, den |-> b]
Zero == Fraction(0, 1)

\* the entries of a Map with number keys as the properties of an object:
\* the key becomes its text, the keys that are array indices (the integers)
\* come first in ascending order, the others follow in insertion order
RECURSIVE insertAscending(_, _)
insertAscending(sorted, e) ==
    IF sorted = <<>> THEN <<e>>
    ELSE IF e.k < Head(sorted).k THEN <<e>> \o sorted
    ELSE <<Head(sorted)>> \o insertAscending(Tail(sorted), e)

RECURSIVE sortAscending(_)
sortAscending(entries) ==
    IF entries = <<>> THEN <<>>
    ELSE insertAscending(sortAscending(Tail(entries)), Head(entries))

isArrayIndex(n) == n # Infinity /\ n >= 0 /\ n % Scale = 0

bucketsFromEntries(bmap) ==
    LET ordered == sortAscending(SelectSeq(bmap, LAMBDA e : isArrayIndex(e.k)))
                   \o SelectSeq(bmap, LAMBDA e : ~isArrayIndex(e.k))
    IN [i \in 1..Len(ordered) |->
          [k |-> numToString(ordered[i].k), v |-> ordered[i].v]]

\* Object.fromEntries of a Map with string keys: the properties are the
\* entries in insertion order (no key of the model is an array index)
fromEntries(m) == [i \in 1..Len(m) |-> [k |-> m[i].k, v |-> m[i].v]]

\* fault: average is count / sum
getHealthMetrics_inverse(s, uptime, memory, cpu) ==
    [counters |-> fromEntries(s.counters),
     histograms |->
        fromEntries([i \in 1..Len(s.histograms) |->
           LET hist == s.histograms[i].v
           IN [k |-> s.histograms[i].k,
               v |-> [count |-> hist.count,
                      sum |-> hist.sum,
                      average |-> IF hist.count > 0
                                  THEN Fraction(hist.count, hist.sum)
                                  ELSE Zero,
                      buckets |-> bucketsFromEntries(hist.buckets)]]]),
     gauges |-> fromEntries(s.gauges),
     system |-> [uptime |-> uptime, memory |-> memory, cpu |-> cpu]]

\* uptime, memory and cpu are the readings of process.uptime(),
\* process.memoryUsage() and process.cpuUsage()
getHealthMetrics(s, uptime, memory, cpu) ==
    [counters |-> fromEntries(s.counters),
     histograms |->
        fromEntries([i \in 1..Len(s.histograms) |->
           LET hist == s.histograms[i].v
           IN [k |-> s.histograms[i].k,
               v |-> [count |-> hist.count,
                      sum |-> hist.sum,
                      average |-> IF hist.count > 0
                                  THEN Fraction(hist.sum, hist.count)
                                  ELSE Zero,
                      buckets |-> bucketsFromEntries(hist.buckets)]]]),
     gauges |-> fromEntries(s.gauges),
     system |-> [uptime |-> uptime, memory |-> memory, cpu |-> cpu]]

\* fault: the gauges are not cleared
reset_keepsGauges(s) == [counters |-> <<>>, histograms |-> <<>>,
                         gauges |-> s.gauges, metrics |-> <<>>]

reset(s) == [counters |-> <<>>, histograms |-> <<>>, gauges |-> <<>>,
             metrics |-> <<>>]

getMetrics(s) == s.metrics

----------------------------------------------------------------------------
(* MetricsController (src/src/common/metrics/metrics.controller.ts).  A    *)
(* handler gives the service after the request and the response body.      *)

\* fault: the rate is not multiplied by 100
calculateErrorRate_noPercent(s) ==
    LET totalRequests == getCounter(s, <<"api_requests_total">>, NoLabels)
        totalErrors == getCounter(s, <<"api_errors_total">>, NoLabels)
    IN IF totalRequests > 0 THEN Fraction(totalErrors, totalRequests) ELSE Zero

calculateErrorRate(s) ==
    LET totalRequests == getCounter(s, <<"api_requests_total">>, NoLabels)
        totalErrors == getCounter(s, <<"api_errors_total">>, NoLabels)
    IN IF totalRequests > 0
       THEN Fraction(totalErrors * 100, totalRequests)
       ELSE Zero

calculateAverageResponseTime(s) ==
    LET histogram == getHistogram(s, <<"api_request_duration_seconds">>, NoLabels)
    IN IF histogram.defined /\ histogram.h.count > 0
       THEN Fraction(histogram.h.sum, histogram.h.count)
       ELSE Zero

calculateAverageDatabaseTime(s) ==
    LET histogram == getHistogram(s, <<"database_operation_duration_seconds">>,
                                  NoLabels)
    IN IF histogram.defined /\ histogram.h.count > 0
       THEN Fraction(histogram.h.sum, histogram.h.count)
       ELSE Zero

Controller_getPrometheusMetrics(s) ==
    [store |-> s, body |-> getPrometheusMetrics(s)]

\* fault: the snapshot is taken before the memory sample is recorded
Controller_getHealthMetrics_late(s, usage, uptime, memory, cpu) ==
    [store |-> recordMemoryUsage(s, usage),
     body |-> getHealthMetrics(s, uptime, memory, cpu)]

\* usage is what process.memoryUsage() reads in recordMemoryUsage
Controller_getHealthMetrics(s, usage, uptime, memory, cpu) ==
    LET s1 == recordMemoryUsage(s, usage)
    IN [store |-> s1, body |-> getHealthMetrics(s1, uptime, memory, cpu)]

Controller_getMetricsSummary(s, uptime, memory, cpu) ==
    LET health == getHealthMetrics(s, uptime, memory, cpu)
        login == <<<<"event">>, <<"login">>>>
    IN [store |-> s,
        body |->
          [api |-> [totalRequests |->
                       getCounter(s, <<"api_requests_total">>, NoLabels),
                    totalErrors |->
                       getCounter(s, <<"api_errors_total">>, NoLabels),
                    errorRate |-> calculateErrorRate(s),
                    averageResponseTime |-> calculateAverageResponseTime(s)],
           auth |-> [totalLoginAttempts |->
                        getCounter(s, <<"auth_events_total">>, Labels(<<login>>)),
                     successfulLogins |->
                        getCounter(s, <<"auth_events_total">>,
                                   Labels(<<login, <<<<"success">>, <<"true">>>> >>)),
                     failedLogins |->
                        getCounter(s, <<"auth_events_total">>,
                                   Labels(<<login, <<<<"success">>, <<"false">>>> >>))],
           database |-> [totalOperations |->
                            getCounter(s, <<"database_operations_total">>, NoLabels),
                         averageOperationTime |-> calculateAverageDatabaseTime(s)],
           files |-> [totalOperations |->
                         getCounter(s, <<"file_operations_total">>, NoLabels),
                      uploads |->
                         getCounter(s, <<"file_operations_total">>,
                                    Labels(<< <<<<"operation">>, <<"upload">>>> >>)),
                      downloads |->
                         getCounter(s, <<"file_operations_total">>,
                                    Labels(<< <<<<"operation">>, <<"download">>>> >>))],
           system |-> health.system]]

----------------------------------------------------------------------------
(* The readers, as calls: the service after the call and the value         *)
(* returned.                                                               *)

ReadOps == {"getCounter", "getHistogram", "getGauge", "getMetrics",
            "getPrometheusMetrics", "getHealthMetrics"}

\* fault: getCounter of an absent key creates the counter with value 0
read_createsOnMiss(s, op, name, labels, uptime, memory, cpu) ==
    [store |-> IF op = "getCounter" /\ ~MapHas(s.counters, getKey(name, labels))
               THEN [s EXCEPT !.counters =
                        MapSet(@, getKey(name, labels),
                               [value |-> 0, labels |-> labels])]
               ELSE s,
     body |-> CASE op = "getCounter" -> getCounter(s, name, labels)
                [] op = "getHistogram" -> getHistogram(s, name, labels)
                [] op = "getGauge" -> getGauge(s, name, labels)
                [] op = "getMetrics" -> getMetrics(s)
                [] op = "getPrometheusMetrics" -> getPrometheusMetrics(s)
                [] op = "getHealthMetrics" -> getHealthMetrics(s, uptime, memory, cpu)]

read(s, op, name, labels, uptime, memory, cpu) ==
    [store |-> s,
     body |-> CASE op = "getCounter" -> getCounter(s, name, labels)
                [] op = "getHistogram" -> getHistogram(s, name, labels)
                [] op = "getGauge" -> getGauge(s, name, labels)
                [] op = "getMetrics" -> getMetrics(s)
                [] op = "getPrometheusMetrics" -> getPrometheusMetrics(s)
                [] op = "getHealthMetrics" -> getHealthMetrics(s, uptime, memory, cpu)]

----------------------------------------------------------------------------
(* Inputs *)

Names == {<<"m">>}

\* {a: "1", b: "2"} and {b: "2", a: "1"}
LabelsAB == Labels(<< <<<<"a">>, <<"1">>>>, <<<<"b">>, <<"2">>>> >>)
LabelsBA == Labels(<< <<<<"b">>, <<"2">>>>, <<<<"a">>, <<"1">>>> >>)

LabelArgs == {NoLabels, LabelsAB, LabelsBA}

\* counter deltas: omitted (1), 2
DeltaArgs == {Omitted, Given(20)}

\* observations: 0.5 (on a bound, above the bound 0.1), 20 (above 10)
Observations == {5, 200}

\* gauge values set: 5; increments: amount omitted (1), with no labels or
\* {b, a}; decrements: amount 3, with no labels or {a, b}
GaugeValues == {50}
IncrementArgs == {Omitted}
IncrementLabelArgs == {NoLabels, LabelsBA}
DecrementArgs == {Given(30)}
DecrementLabelArgs == {NoLabels, LabelsAB}

----------------------------------------------------------------------------
(* The state machine.  counters, histograms, gauges and metrics are the    *)
(* service's fields.  Three more variables record the history:             *)
(*   calls   the calls made from outside on the counter, histogram and     *)
(*           gauge methods since the last reset, in order;                 *)
(*   wiped   the fields as they were when the last reset() cleared them;   *)
(*   budget  the number of calls still to be made;                         *)
(*   recs    the recorder calls and the requests made, in order;           *)
(*   resp    what the last request to the controller returned;             *)
(*   handlers  the request handlers in flight: for each its calls and the  *)
(*           number of the call it makes next.                             *)
(* One step is one whole call: the methods are synchronous and run to      *)
(* completion on the event loop, so no other handler sees a call half done.*)

Call(op, name, labels, arg) == [op |-> op, name |-> name, labels |-> labels, arg |-> arg]

Commit(s, call) ==
    /\ counters' = s.counters
    /\ histograms' = s.histograms
    /\ gauges' = s.gauges
    /\ metrics' = s.metrics
    /\ calls' = Append(calls, call)
    /\ budget' = budget - 1
    /\ UNCHANGED <<wiped, recs, resp, handlers, held>>

\* no caller holds a returned value yet
NotHeld == [op |-> "none", value |-> <<>>, returned |-> <<>>, shared |-> FALSE]

\* no request made yet
NoResponse == [endpoint |-> "none", body |-> <<>>]

Init ==
    /\ counters = <<>>
    /\ histograms = <<>>
    /\ gauges = <<>>
    /\ metrics = <<>>
    /\ calls = <<>>
    /\ wiped = EmptyStore
    /\ budget = MaxOps
    /\ recs = <<>>
    /\ resp = NoResponse
    /\ handlers = <<>>
    /\ held = NotHeld

IncrementCounter ==
    /\ budget > 0
    /\ \E name \in Names, labels \in LabelArgs, arg \in DeltaArgs :
          Commit(incrementCounter(Store, name, labels, arg),
                 Call("incrementCounter", name, labels, arg))

RecordHistogram ==
    /\ budget > 0
    /\ \E name \in Names, labels \in LabelArgs, value \in Observations :
          Commit(recordHistogram(Store, name, value, labels),
                 Call("recordHistogram", name, labels, Given(value)))

SetGauge ==
    /\ budget > 0
    /\ \E name \in Names, labels \in LabelArgs, value \in GaugeValues :
          Commit(setGauge(Store, name, value, labels),
                 Call("setGauge", name, labels, Given(value)))

IncrementGauge ==
    /\ budget > 0
    /\ \E name \in Names, labels \in IncrementLabelArgs, arg \in IncrementArgs :
          Commit(incrementGauge(Store, name, arg, labels),
                 Call("incrementGauge", name, labels, arg))

DecrementGauge ==
    /\ budget > 0
    /\ \E name \in Names, labels \in DecrementLabelArgs, arg \in DecrementArgs :
          Commit(decrementGauge(Store, name, arg, labels),
                 Call("decrementGauge", name, labels, arg))

Reset ==
    /\ budget > 0
    /\ counters' = reset(Store).counters
    /\ histograms' = reset(Store).histograms
    /\ gauges' = reset(Store).gauges
    /\ metrics' = reset(Store).metrics
    /\ calls' = <<>>
    /\ wiped' = Store
    /\ budget' = budget - 1
    /\ UNCHANGED <<recs, resp, handlers, held>>

Next ==
    \/ IncrementCounter
    \/ RecordHistogram
    \/ SetGauge
    \/ IncrementGauge
    \/ DecrementGauge
    \/ Reset

Spec == Init /\ [][Next]_vars

----------------------------------------------------------------------------
(* The same service after MaxMetrics - 1 calls incrementCounter(name):     *)
(* its event log is one event short of its capacity.                       *)

WarmName == <<"m">>
WarmCalls == MaxMetrics - 1

\* s after n calls incrementCounter(WarmName), by halves (the test on half
\* makes TLC evaluate it before it descends into the second half)
RECURSIVE afterIncrements(_, _)
afterIncrements(s, n) ==
    IF n = 0 THEN s
    ELSE IF n = 1 THEN incrementCounter(s, WarmName, NoLabels, Omitted)
    ELSE LET half == afterIncrements(s, n \div 2)
         IN IF Len(half.metrics) >= 0
            THEN afterIncrements(half, n - (n \div 2))
            ELSE half

InitWarm ==
    LET s == afterIncrements(EmptyStore, WarmCalls)
    IN /\ counters = s.counters
       /\ histograms = s.histograms
       /\ gauges = s.gauges
       /\ metrics = s.metrics
       /\ calls = [i \in 1..WarmCalls |->
                      Call("incrementCounter", WarmName, NoLabels, Omitted)]
       /\ wiped = EmptyStore
       /\ budget = MaxWarmOps
       /\ recs = <<>>
       /\ resp = NoResponse
       /\ handlers = <<>>
       /\ held = NotHeld

SpecWarm == InitWarm /\ [][Next]_vars

----------------------------------------------------------------------------
(* Concurrent request handlers.  Each handler has its calls to make on the *)
(* counter and the gauge of one canonical key; the event loop runs one     *)
(* call of one handler at a time, to its end, and the calls of different   *)
(* handlers interleave in any order.                                       *)

HandlerIds == {1, 2}

HandlerCalls == {Call("incrementCounter", <<"m">>, LabelsAB, Omitted),
                 Call("incrementCounter", <<"m">>, LabelsBA, Given(20)),
                 Call("incrementGauge", <<"m">>, LabelsBA, Omitted),
                 Call("decrementGauge", <<"m">>, LabelsAB, Given(30))}

Scripts == UNION {[1..n -> HandlerCalls] : n \in 1..MaxHandlerCalls}

\* the service after the call c
perform(s, c) ==
    CASE c.op = "incrementCounter" -> incrementCounter(s, c.name, c.labels, c.arg)
      [] c.op = "incrementGauge" -> incrementGauge(s, c.name, c.arg, c.labels)
      [] c.op = "decrementGauge" -> decrementGauge(s, c.name, c.arg, c.labels)

InitConc ==
    /\ counters = <<>>
    /\ histograms = <<>>
    /\ gauges = <<>>
    /\ metrics = <<>>
    /\ calls = <<>>
    /\ wiped = EmptyStore
    /\ budget = 0
    /\ recs = <<>>
    /\ resp = NoResponse
    /\ handlers \in [HandlerIds -> {[script |-> sc, pc |-> 1] : sc \in Scripts}]
    /\ held = NotHeld

\* the handler h makes its next call
HandlerStep ==
    \E h \in HandlerIds :
       /\ handlers[h].pc <= Len(handlers[h].script)
       /\ LET c == handlers[h].script[handlers[h].pc]
              s == perform(Store, c)
          IN /\ counters' = s.counters
             /\ histograms' = s.histograms
             /\ gauges' = s.gauges
             /\ metrics' = s.metrics
             /\ calls' = Append(calls, c)
       /\ handlers' = [handlers EXCEPT ![h].pc = @ + 1]
       /\ UNCHANGED <<wiped, budget, recs, resp, held>>

NextConc == HandlerStep

SpecConc == InitConc /\ [][NextConc]_vars

----------------------------------------------------------------------------
(* The service in the application: the recorders are called, the store's   *)
(* own methods are called with the application's metric names, and the     *)
(* controller answers requests.                                            *)

Endpoints == {<<"/users">>}
Methods == {<<"GET">>}
\* 200 and 400
StatusCodes == {200 * Scale, 400 * Scale}
\* 500 ms
Durations == {500 * Scale}
FileOperations == {<<"upload">>}
FileTypes == {<<"pdf">>}
\* no size, the size 0, 2048 bytes
SizeArgs == {Omitted, Given(0), Given(2048 * Scale)}
Services == {<<"redis">>}
\* <<hits, total>>: 1 of 2, 0 of 2, 2 of 2, 1 of 0
CacheArgs == {<<Scale, 2 * Scale>>, <<0, 2 * Scale>>,
              <<2 * Scale, 2 * Scale>>, <<Scale, 0>>}
\* the counters and histograms the summary reads
SummaryCounters == {<<"api_requests_total">>, <<"api_errors_total">>}
SummaryHistograms == {<<"api_request_duration_seconds">>,
                      <<"database_operation_duration_seconds">>}
SummaryObservations == {5}
\* {k: "1=2"}
LabelsWithEquals == Labels(<< <<<<"k">>, <<"1", "=", "2">>>> >>)

\* readings of process.memoryUsage(), process.uptime(), process.cpuUsage()
MemoryReadings == {MemoryUsage(300 * Scale, 400 * Scale, 500 * Scale, 20 * Scale),
                   MemoryUsage(310 * Scale, 400 * Scale, 520 * Scale, 20 * Scale)}
\* the reading getHealthMetrics takes for system.memory
SystemMemoryReadings == {MemoryUsage(320 * Scale, 400 * Scale, 530 * Scale, 20 * Scale)}
UptimeReadings == {12 * Scale}
CpuReadings == {[user |-> 1000 * Scale, system |-> 500 * Scale]}

Rec(op, args) == [op |-> op, args |-> args]

CommitRec(s, rec) ==
    /\ counters' = s.counters
    /\ histograms' = s.histograms
    /\ gauges' = s.gauges
    /\ metrics' = s.metrics
    /\ recs' = Append(recs, rec)
    /\ budget' = budget - 1
    /\ UNCHANGED <<calls, wiped, resp, handlers, held>>

CommitRequest(endpoint, result, rec) ==
    /\ counters' = result.store.counters
    /\ histograms' = result.store.histograms
    /\ gauges' = result.store.gauges
    /\ metrics' = result.store.metrics
    /\ resp' = [endpoint |-> endpoint, body |-> result.body]
    /\ recs' = Append(recs, rec)
    /\ budget' = budget - 1
    /\ UNCHANGED <<calls, wiped, handlers, held>>

InitApp ==
    /\ counters = <<>>
    /\ histograms = <<>>
    /\ gauges = <<>>
    /\ metrics = <<>>
    /\ calls = <<>>
    /\ wiped = EmptyStore
    /\ budget = MaxAppOps
    /\ recs = <<>>
    /\ resp = NoResponse
    /\ handlers = <<>>
    /\ held = NotHeld

RecordApiCall ==
    /\ budget > 0
    /\ \E endpoint \in Endpoints, method \in Methods,
          statusCode \in StatusCodes, duration \in Durations :
          CommitRec(recordApiCall(Store, endpoint, method, statusCode, duration),
                    Rec("recordApiCall",
                        [endpoint |-> endpoint, method |-> method,
                         statusCode |-> statusCode, duration |-> duration]))

RecordFileOperation ==
    /\ budget > 0
    /\ \E operation \in FileOperations, fileType \in FileTypes, size \in SizeArgs :
          CommitRec(recordFileOperation(Store, operation, fileType, size),
                    Rec("recordFileOperation",
                        [operation |-> operation, fileType |-> fileType,
                         size |-> size]))

RecordCacheHitRate ==
    /\ budget > 0
    /\ \E service \in Services, a \in CacheArgs :
          CommitRec(recordCacheHitRate(Store, service, a[1], a[2]),
                    Rec("recordCacheHitRate",
                        [service |-> service, hits |-> a[1], total |-> a[2]]))

IncrementSummaryCounter ==
    /\ budget > 0
    /\ \E name \in SummaryCounters :
          Commit(incrementCounter(Store, name, NoLabels, Omitted),
                 Call("incrementCounter", name, NoLabels, Omitted))

RecordSummaryHistogram ==
    /\ budget > 0
    /\ \E name \in SummaryHistograms, value \in SummaryObservations :
          Commit(recordHistogram(Store, name, value, NoLabels),
                 Call("recordHistogram", name, NoLabels, Given(value)))

SetLabelledGauge ==
    /\ budget > 0
    /\ \E name \in Names, value \in GaugeValues :
          Commit(setGauge(Store, name, value, LabelsWithEquals),
                 Call("setGauge", name, LabelsWithEquals, Given(value)))

\* GET /metrics
GetPrometheusMetrics ==
    /\ budget > 0
    /\ CommitRequest("metrics", Controller_getPrometheusMetrics(Store),
                     Rec("GET /metrics", [usage |-> <<>>]))

\* GET /metrics/health
GetHealthMetrics ==
    /\ budget > 0
    /\ \E usage \in MemoryReadings, uptime \in UptimeReadings,
          memory \in SystemMemoryReadings, cpu \in CpuReadings :
          CommitRequest("health",
                        Controller_getHealthMetrics(Store, usage, uptime, memory, cpu),
                        Rec("GET /metrics/health", [usage |-> usage]))

\* GET /metrics/summary
GetMetricsSummary ==
    /\ budget > 0
    /\ \E uptime \in UptimeReadings, memory \in SystemMemoryReadings,
          cpu \in CpuReadings :
          CommitRequest("summary",
                        Controller_getMetricsSummary(Store, uptime, memory, cpu),
                        Rec("GET /metrics/summary", [usage |-> <<>>]))

NextApp ==
    \/ RecordApiCall
    \/ RecordFileOperation
    \/ RecordCacheHitRate
    \/ IncrementSummaryCounter
    \/ RecordSummaryHistogram
    \/ SetLabelledGauge
    \/ GetPrometheusMetrics
    \/ GetHealthMetrics
    \/ GetMetricsSummary

SpecApp == InitApp /\ [][NextApp]_vars
----------------------------------------------------------------------------
(* The summary of recorded traffic: only the recorders are called, and the *)
(* summary is requested.                                                   *)

DatabaseOperations == {<<"select">>}
Tables == {<<"users">>}
AuthEvents == {<<"login">>}

InitSummary ==
    /\ counters = <<>>
    /\ histograms = <<>>
    /\ gauges = <<>>
    /\ metrics = <<>>
    /\ calls = <<>>
    /\ wiped = EmptyStore
    /\ budget = MaxSummaryOps
    /\ recs = <<>>
    /\ resp = NoResponse
    /\ handlers = <<>>
    /\ held = NotHeld

RecordDatabaseOperation ==
    /\ budget > 0
    /\ \E operation \in DatabaseOperations, table \in Tables,
          duration \in Durations :
          CommitRec(recordDatabaseOperation(Store, operation, table, duration),
                    Rec("recordDatabaseOperation",
                        [operation |-> operation, table |-> table,
                         duration |-> duration]))

RecordAuthEvent ==
    /\ budget > 0
    /\ \E event \in AuthEvents, success \in BOOLEAN :
          CommitRec(recordAuthEvent(Store, event, success),
                    Rec("recordAuthEvent", [event |-> event, success |-> success]))

NextSummary ==
    \/ RecordApiCall
    \/ RecordDatabaseOperation
    \/ RecordFileOperation
    \/ RecordAuthEvent
    \/ GetMetricsSummary

SpecSummary == InitSummary /\ [][NextSummary]_vars

----------------------------------------------------------------------------
(* The canonical key.  The store's methods are called with no labels, with *)
(* the empty label map, and with names and label values that contain the   *)
(* characters of the key's own syntax.                                     *)

\* {}
EmptyLabels == Labels(<<>>)
\* {k: "1"}
LabelsK == Labels(<< <<<<"k">>, <<"1">>>> >>)
\* {a: '1",b="2'}
LabelsQuoted == Labels(<< <<<<"a">>, <<"1", "\"", ",", "b", "=", "\"", "2">>>> >>)
\* the name 'm|k="1"'
NameWithBar == <<"m", "|", "k", "=", "\"", "1", "\"">>

\* <<name, labels>>
KeyTargets == {<<<<"m">>, NoLabels>>, <<<<"m">>, EmptyLabels>>,
               <<<<"m">>, LabelsK>>, <<<<"m">>, LabelsAB>>,
               <<<<"m">>, LabelsQuoted>>, <<NameWithBar, NoLabels>>}
KeyObservations == {5}
\* the entities read: m and m{k="1"}; the readers without arguments read
\* the first
ReadTargets == {<<<<"m">>, NoLabels>>, <<<<"m">>, LabelsK>>}
ReadCalls == {<<op, t>> : op \in {"getCounter", "getHistogram", "getGauge"},
                          t \in ReadTargets}
             \cup {<<op, <<<<"m">>, NoLabels>>>> :
                      op \in {"getMetrics", "getPrometheusMetrics",
                               "getHealthMetrics"}}

InitKeys ==
    /\ counters = <<>>
    /\ histograms = <<>>
    /\ gauges = <<>>
    /\ metrics = <<>>
    /\ calls = <<>>
    /\ wiped = EmptyStore
    /\ budget = MaxKeyOps
    /\ recs = <<>>
    /\ resp = NoResponse
    /\ handlers = <<>>
    /\ held = NotHeld

IncrementCounterAt ==
    /\ budget > 0
    /\ \E t \in KeyTargets :
          Commit(incrementCounter(Store, t[1], t[2], Omitted),
                 Call("incrementCounter", t[1], t[2], Omitted))

RecordHistogramAt ==
    /\ budget > 0
    /\ \E t \in KeyTargets, value \in KeyObservations :
          Commit(recordHistogram(Store, t[1], value, t[2]),
                 Call("recordHistogram", t[1], t[2], Given(value)))

SetGaugeAt ==
    /\ budget > 0
    /\ \E t \in KeyTargets, value \in GaugeValues :
          Commit(setGauge(Store, t[1], value, t[2]),
                 Call("setGauge", t[1], t[2], Given(value)))

Read ==
    /\ budget > 0
    /\ \E r \in ReadCalls, uptime \in UptimeReadings,
          memory \in SystemMemoryReadings, cpu \in CpuReadings :
          CommitRequest(r[1],
                        read(Store, r[1], r[2][1], r[2][2], uptime, memory, cpu),
                        Rec(r[1], [name |-> r[2][1], labels |-> r[2][2]]))

NextKeys ==
    \/ IncrementCounterAt
    \/ RecordHistogramAt
    \/ SetGaugeAt
    \/ Read

SpecKeys == InitKeys /\ [][NextKeys]_vars

----------------------------------------------------------------------------
(* Several entities: the store's methods are called on two names, each     *)
(* without labels and with two label sets of the same label key.           *)

\* {k: "2"}
LabelsK2 == Labels(<< <<<<"k">>, <<"2">>>> >>)
FrameNames == {<<"m">>, <<"n">>}
FrameLabelArgs == {NoLabels, LabelsK, LabelsK2}

InitFrame ==
    /\ counters = <<>>
    /\ histograms = <<>>
    /\ gauges = <<>>
    /\ metrics = <<>>
    /\ calls = <<>>
    /\ wiped = EmptyStore
    /\ budget = MaxFrameOps
    /\ recs = <<>>
    /\ resp = NoResponse
    /\ handlers = <<>>
    /\ held = NotHeld

IncrementCounterOf ==
    /\ budget > 0
    /\ \E name \in FrameNames, labels \in FrameLabelArgs :
          Commit(incrementCounter(Store, name, labels, Omitted),
                 Call("incrementCounter", name, labels, Omitted))

RecordHistogramOf ==
    /\ budget > 0
    /\ \E name \in FrameNames, labels \in FrameLabelArgs, value \in KeyObservations :
          Commit(recordHistogram(Store, name, value, labels),
                 Call("recordHistogram", name, labels, Given(value)))

SetGaugeOf ==
    /\ budget > 0
    /\ \E name \in FrameNames, labels \in FrameLabelArgs, value \in GaugeValues :
          Commit(setGauge(Store, name, value, labels),
                 Call("setGauge", name, labels, Given(value)))

DecrementGaugeOf ==
    /\ budget > 0
    /\ \E name \in FrameNames, labels \in FrameLabelArgs, arg \in DecrementArgs :
          Commit(decrementGauge(Store, name, arg, labels),
                 Call("decrementGauge", name, labels, arg))

NextFrame ==
    \/ IncrementCounterOf
    \/ RecordHistogramOf
    \/ SetGaugeOf
    \/ DecrementGaugeOf

SpecFrame == InitFrame /\ [][NextFrame]_vars

----------------------------------------------------------------------------
(* Values returned by the export methods and kept by their caller.  held   *)
(* is the last such value: value is what the caller reads in it now,       *)
(* returned what it was when the method returned it.                       *)
(* Object.fromEntries(this.counters) puts the Counter objects of the map   *)
(* themselves into the returned value, and `existing.value += value`       *)
(* writes to those objects; a Counter object stays in the map under its    *)
(* key until clear(), after which the map gets new objects.                *)

SnapLabelArgs == {NoLabels, LabelsK}
SnapGaugeValues == {2 * Scale, 5 * Scale}

\* the value returned by method op
Returned(op, value, shared) ==
    [op |-> op, value |-> value, returned |-> value, shared |-> shared]

\* the held value once the store has become s: the Counter objects it
\* shares with the map are read with their present fields
afterWrite(h, s) ==
    IF h.op = "getHealthMetrics" /\ h.shared
    THEN [h EXCEPT !.value.counters =
            [i \in 1..Len(@) |-> [k |-> @[i].k, v |-> MapGet(s.counters, @[i].k)]]]
    ELSE h

\* the held value once the maps are cleared: its objects are in no map
afterClear(h) == [h EXCEPT !.shared = FALSE]

CommitWrite(s) ==
    /\ counters' = s.counters
    /\ histograms' = s.histograms
    /\ gauges' = s.gauges
    /\ metrics' = s.metrics
    /\ held' = afterWrite(held, s)
    /\ budget' = budget - 1
    /\ UNCHANGED <<calls, wiped, recs, resp, handlers>>

InitSnap ==
    /\ counters = <<>>
    /\ histograms = <<>>
    /\ gauges = <<>>
    /\ metrics = <<>>
    /\ calls = <<>>
    /\ wiped = EmptyStore
    /\ budget = MaxSnapOps
    /\ recs = <<>>
    /\ resp = NoResponse
    /\ handlers = <<>>
    /\ held = NotHeld

IncrementCounterHeld ==
    /\ budget > 0
    /\ \E name \in Names, labels \in SnapLabelArgs :
          CommitWrite(incrementCounter(Store, name, labels, Omitted))

RecordHistogramHeld ==
    /\ budget > 0
    /\ \E name \in Names, labels \in SnapLabelArgs, value \in KeyObservations :
          CommitWrite(recordHistogram(Store, name, value, labels))

SetGaugeHeld ==
    /\ budget > 0
    /\ \E name \in Names, labels \in SnapLabelArgs, value \in SnapGaugeValues :
          CommitWrite(setGauge(Store, name, value, labels))

ResetHeld ==
    /\ budget > 0
    /\ counters' = reset(Store).counters
    /\ histograms' = reset(Store).histograms
    /\ gauges' = reset(Store).gauges
    /\ metrics' = reset(Store).metrics
    /\ held' = afterClear(held)
    /\ budget' = budget - 1
    /\ UNCHANGED <<calls, wiped, recs, resp, handlers>>

HoldHealthMetrics ==
    /\ budget > 0
    /\ \E uptime \in UptimeReadings, memory \in SystemMemoryReadings,
          cpu \in CpuReadings :
          held' = Returned("getHealthMetrics",
                           getHealthMetrics(Store, uptime, memory, cpu), TRUE)
    /\ budget' = budget - 1
    /\ UNCHANGED <<counters, histograms, gauges, metrics, calls, wiped, recs,
                   resp, handlers>>

HoldMetrics ==
    /\ budget > 0
    /\ held' = Returned("getMetrics", getMetrics(Store), FALSE)
    /\ budget' = budget - 1
    /\ UNCHANGED <<counters, histograms, gauges, metrics, calls, wiped, recs,
                   resp, handlers>>

NextSnap ==
    \/ IncrementCounterHeld
    \/ RecordHistogramHeld
    \/ SetGaugeHeld
    \/ ResetHeld
    \/ HoldHealthMetrics
    \/ HoldMetrics

SpecSnap == InitSnap /\ [][NextSnap]_vars

----------------------------------------------------------------------------
(* What the history says the store must hold.  A call addresses the entity *)
(* (name, set of label pairs); nothing below uses getKey to decide that.   *)

LabelSet(labels) == {labels.pairs[i] : i \in 1..Len(labels.pairs)}

SameEntity(c, name, labels) ==
    c.name = name /\ LabelSet(c.labels) = LabelSet(labels)

\* the amount of a call, 1 when omitted
Amount(arg) == IF arg.given THEN arg.v ELSE Scale

\* seq[lo] + ... + seq[hi], by halves
RECURSIVE SumRange(_, _, _)
SumRange(seq, lo, hi) ==
    IF lo > hi THEN 0
    ELSE IF lo = hi THEN seq[lo]
    ELSE LET mid == (lo + hi) \div 2
         IN SumRange(seq, lo, mid) + SumRange(seq, mid + 1, hi)

Max(S) == CHOOSE x \in S : \A y \in S : y <= x

CallsOn(op, name, labels) ==
    {i \in 1..Len(calls) : calls[i].op = op /\ SameEntity(calls[i], name, labels)}

ExpectedCounter(name, labels) ==
    LET on == CallsOn("incrementCounter", name, labels)
    IN SumRange([i \in 1..Len(calls) |->
                    IF i \in on THEN Amount(calls[i].arg) ELSE 0], 1, Len(calls))

ExpectedSum(name, labels) ==
    LET on == CallsOn("recordHistogram", name, labels)
    IN SumRange([i \in 1..Len(calls) |->
                    IF i \in on THEN calls[i].arg.v ELSE 0], 1, Len(calls))

\* the gauge after the first n calls: the last value set, then the amounts
ExpectedGaugeAt(name, labels, n) ==
    LET sets == {i \in CallsOn("setGauge", name, labels) : i <= n}
        last == IF sets = {} THEN 0 ELSE Max(sets)
        incs == CallsOn("incrementGauge", name, labels)
        decs == CallsOn("decrementGauge", name, labels)
    IN (IF last = 0 THEN 0 ELSE calls[last].arg.v)
       + SumRange([i \in 1..n |->
                      IF i > last /\ i \in incs THEN Amount(calls[i].arg)
                      ELSE IF i > last /\ i \in decs THEN 0 - Amount(calls[i].arg)
                      ELSE 0], 1, n)

ExpectedGauge(name, labels) == ExpectedGaugeAt(name, labels, Len(calls))

\* the fixed bounds 0.1, 0.5, 1, 2.5, 5, 10, +Inf of the data model
Bounds == <<1, 5, 10, 25, 50, 100, Infinity>>

\* the count a stored histogram holds for a bound (none stored reads as 0)
BucketCount(h, b) == IF MapHas(h.buckets, b) THEN MapGet(h.buckets, b) ELSE 0

GaugeOps == {"setGauge", "incrementGauge", "decrementGauge"}

----------------------------------------------------------------------------
(* Properties *)

\* C1: getCounter(name, L) is the sum of the deltas of the incrementCounter
\* calls made on (name, L) since the last reset, an omitted delta counting 1.
C1_CounterIsSumOfDeltas ==
    \A name \in Names, labels \in LabelArgs :
        getCounter(Store, name, labels) = ExpectedCounter(name, labels)

\* two increments of one counter, one with the delta omitted and one with 2
C1_Witness ==
    \E name \in Names, labels \in LabelArgs :
        /\ Cardinality(CallsOn("incrementCounter", name, labels)) = 2
        /\ \E i, j \in CallsOn("incrementCounter", name, labels) :
              ~calls[i].arg.given /\ calls[j].arg = Given(20)
        /\ getCounter(Store, name, labels) = 30

\* C2: after recordHistogram calls on (name, L), getHistogram(name, L).count
\* is the number of those calls and .sum is the sum of their values.
C2_HistogramCountAndSum ==
    \A name \in Names, labels \in LabelArgs :
        LET on == CallsOn("recordHistogram", name, labels)
            got == getHistogram(Store, name, labels)
        IN on # {} =>
              /\ got.defined
              /\ got.h.count = Cardinality(on) * Scale
              /\ got.h.sum = ExpectedSum(name, labels)

\* three observations 0.5, 20 and 20 of one histogram
C2_Witness ==
    \E name \in Names, labels \in LabelArgs :
        LET got == getHistogram(Store, name, labels)
        IN /\ Cardinality(CallsOn("recordHistogram", name, labels)) = 3
           /\ got.defined
           /\ got.h.count = 3 * Scale
           /\ got.h.sum = 405

\* C3: every stored histogram has bucket counts that do not decrease from a
\* bound to the next larger one, and its +Inf bucket equals its count (so no
\* state shows a count without its buckets).
C3_BucketsCumulative ==
    \A n \in 1..Len(histograms) :
        LET h == histograms[n].v
        IN /\ \A i \in 1..(Len(Bounds) - 1) :
                 BucketCount(h, Bounds[i]) <= BucketCount(h, Bounds[i + 1])
           /\ BucketCount(h, Infinity) = h.count

\* a histogram whose buckets differ: 0.1 holds 0, 0.5 holds 2, +Inf holds 3
C3_Witness ==
    \E n \in 1..Len(histograms) :
        LET h == histograms[n].v
        IN /\ BucketCount(h, 1) = 0
           /\ BucketCount(h, 5) = 2 * Scale
           /\ BucketCount(h, 100) = 2 * Scale
           /\ BucketCount(h, Infinity) = 3 * Scale
           /\ h.count = 3 * Scale

\* C4: for each fixed bound b, the bucket of b counts the recorded
\* observations v <= b of that histogram (v = b included); as calls grows by
\* one observation per call, one call raises exactly the buckets it satisfies.
C4_BucketCountsObservations ==
    \A name \in Names, labels \in LabelArgs :
        LET on == CallsOn("recordHistogram", name, labels)
            got == getHistogram(Store, name, labels)
        IN on # {} =>
              /\ got.defined
              /\ \A i \in 1..Len(Bounds) :
                    BucketCount(got.h, Bounds[i]) =
                       Scale * Cardinality({k \in on :
                                   Bounds[i] = Infinity \/ calls[k].arg.v <= Bounds[i]})

\* an observation 0.5, on the bound 0.5, and an observation 20
C4_Witness ==
    \E name \in Names, labels \in LabelArgs :
        LET on == CallsOn("recordHistogram", name, labels)
            got == getHistogram(Store, name, labels)
        IN /\ {calls[k].arg.v : k \in on} = {5, 200}
           /\ Cardinality(on) = 2
           /\ got.defined
           /\ BucketCount(got.h, 1) = 0
           /\ BucketCount(got.h, 5) = Scale
           /\ BucketCount(got.h, 100) = Scale
           /\ BucketCount(got.h, Infinity) = 2 * Scale

\* C5: two label maps with the same pairs in different insertion orders
\* address one entity: every read agrees for the two, and a write made with
\* one is present for the other, for counters, histograms and gauges.
C5_LabelOrderIrrelevant ==
    \A name \in Names, l1 \in LabelArgs, l2 \in LabelArgs :
        (l1 # l2 /\ LabelSet(l1) = LabelSet(l2)) =>
           /\ getCounter(Store, name, l1) = getCounter(Store, name, l2)
           /\ getHistogram(Store, name, l1) = getHistogram(Store, name, l2)
           /\ getGauge(Store, name, l1) = getGauge(Store, name, l2)
           /\ CallsOn("incrementCounter", name, l1) # {}
                 => MapHas(counters, getKey(name, l2))
           /\ CallsOn("recordHistogram", name, l1) # {}
                 => MapHas(histograms, getKey(name, l2))
           /\ (\E op \in GaugeOps : CallsOn(op, name, l1) # {})
                 => MapHas(gauges, getKey(name, l2))

\* a counter written once with {a, b} and once with {b, a} holds both
C5_Witness ==
    \E name \in Names, l1 \in LabelArgs, l2 \in LabelArgs :
        /\ l1 # l2
        /\ LabelSet(l1) = LabelSet(l2)
        /\ \E i, j \in 1..Len(calls) :
              /\ calls[i] = Call("incrementCounter", name, l1, Omitted)
              /\ calls[j] = Call("incrementCounter", name, l2, Given(20))
        /\ getCounter(Store, name, l1) = 30
        /\ getCounter(Store, name, l2) = 30
        /\ Len(counters) = 1

\* C6: a read of an entity not written since the last reset gives 0 for a
\* counter, 0 for a gauge and undefined for a histogram.
C6_AbsentReadsZero ==
    \A name \in Names, labels \in LabelArgs :
        /\ CallsOn("incrementCounter", name, labels) = {}
              => getCounter(Store, name, labels) = 0
        /\ (\A op \in GaugeOps : CallsOn(op, name, labels) = {})
              => getGauge(Store, name, labels) = 0
        /\ CallsOn("recordHistogram", name, labels) = {}
              => getHistogram(Store, name, labels) = Undefined

\* other entities are written, of all three kinds, and one is read absent
C6_Witness ==
    /\ counters # <<>> /\ histograms # <<>> /\ gauges # <<>>
    /\ \E name \in Names, labels \in LabelArgs :
          /\ \A i \in 1..Len(calls) : ~SameEntity(calls[i], name, labels)
          /\ getCounter(Store, name, labels) = 0
          /\ getGauge(Store, name, labels) = 0
          /\ getHistogram(Store, name, labels) = Undefined

\* C7: getGauge is the value of the last setGauge on the key (0 without one)
\* plus the later incrementGauge amounts minus the later decrementGauge ones.
C7_GaugeFollowsCalls ==
    \A name \in Names, labels \in LabelArgs :
        getGauge(Store, name, labels) = ExpectedGauge(name, labels)

\* setGauge(g, 5), incrementGauge(g), decrementGauge(g, 3) leaves 3
C7_Witness ==
    \E name \in Names, labels \in LabelArgs :
        /\ Len(calls) = 3
        /\ calls[1].op = "setGauge" /\ SameEntity(calls[1], name, labels)
        /\ calls[2].op = "incrementGauge" /\ SameEntity(calls[2], name, labels)
        /\ calls[2].arg = Omitted
        /\ calls[3].op = "decrementGauge" /\ SameEntity(calls[3], name, labels)
        /\ calls[3].arg = Given(30)
        /\ getGauge(Store, name, labels) = 30

\* keys of the store the last reset cleared
WasPopulated(name, labels) ==
    getKey(name, labels) \in
        MapKeys(wiped.counters) \cup MapKeys(wiped.histograms)
        \cup MapKeys(wiped.gauges)

\* C8: with no call made since reset(), every key the reset cleared reads as
\* absent (counter 0, gauge 0, histogram undefined) and getMetrics is empty.
C8_ResetClearsAll ==
    calls = <<>> =>
       /\ \A name \in Names, labels \in LabelArgs :
             WasPopulated(name, labels) =>
                /\ getCounter(Store, name, labels) = 0
                /\ getGauge(Store, name, labels) = 0
                /\ getHistogram(Store, name, labels) = Undefined
       /\ getMetrics(Store) = <<>>

\* the state right after a reset of a store that held a counter, a gauge and
\* two events
C8_Witness ==
    /\ calls = <<>>
    /\ wiped.counters # <<>> /\ wiped.gauges # <<>>
    /\ Len(wiped.metrics) = 2
    /\ \E name \in Names, labels \in LabelArgs : WasPopulated(name, labels)
    /\ getMetrics(Store) = <<>>

\* the effect of the call c on its entity, from the store s to the store s2
Applied(s, s2, c) ==
    CASE c.op = "incrementCounter" ->
            getCounter(s2, c.name, c.labels)
               = getCounter(s, c.name, c.labels) + Amount(c.arg)
      [] c.op = "recordHistogram" ->
            LET before == getHistogram(s, c.name, c.labels)
                after == getHistogram(s2, c.name, c.labels)
            IN /\ after.defined
               /\ after.h.count
                     = (IF before.defined THEN before.h.count ELSE 0) + Scale
               /\ after.h.sum
                     = (IF before.defined THEN before.h.sum ELSE 0) + c.arg.v
      [] c.op = "setGauge" ->
            getGauge(s2, c.name, c.labels) = c.arg.v
      [] c.op = "incrementGauge" ->
            getGauge(s2, c.name, c.labels)
               = getGauge(s, c.name, c.labels) + Amount(c.arg)
      [] c.op = "decrementGauge" ->
            getGauge(s2, c.name, c.labels)
               = getGauge(s, c.name, c.labels) - Amount(c.arg)

\* C9: the event log never holds more than 1000 events, and a mutating call
\* made while the log holds 1000 events is not refused: its effect on its
\* counter, histogram or gauge is applied.
C9_LogBoundedWritesApplied ==
    /\ [](Len(metrics) <= MaxMetrics)
    /\ [][(Len(metrics) = MaxMetrics /\ Len(calls') = Len(calls) + 1)
             => /\ Applied(Store, Store', calls'[Len(calls')])
                /\ Len(metrics') = MaxMetrics]_vars

\* more than 1000 calls were made, the last a setGauge whose value is stored
C9_Witness ==
    /\ Len(calls) > MaxMetrics
    /\ Len(metrics) = MaxMetrics
    /\ LET c == calls[Len(calls)]
       IN c.op = "setGauge" /\ getGauge(Store, c.name, c.labels) = c.arg.v

\* the event the n-th call since the last reset pushes
ExpectedEvent(n) ==
    LET c == calls[n]
    IN Metric(c.name,
              CASE c.op = "incrementCounter" -> Amount(c.arg)
                [] c.op = "recordHistogram" -> c.arg.v
                [] c.op = "setGauge" -> c.arg.v
                [] c.op \in {"incrementGauge", "decrementGauge"} ->
                      ExpectedGaugeAt(c.name, c.labels, n),
              c.labels)

\* C10: after n mutations since the last reset getMetrics returns the events
\* of the last min(n, 1000) of them, in the order they were made.
C10_LogKeepsNewestInOrder ==
    LET n == Len(calls)
        got == getMetrics(Store)
        kept == IF n < MaxMetrics THEN n ELSE MaxMetrics
    IN /\ Len(got) = kept
       /\ \A i \in 1..kept : got[i] = ExpectedEvent(n - kept + i)

\* 1001 mutations: the first event is gone, the last two are the newest two
\* and they differ
C10_Witness ==
    /\ Len(calls) = MaxMetrics + 1
    /\ Len(getMetrics(Store)) = MaxMetrics
    /\ calls[Len(calls)].op = "recordHistogram"
    /\ calls[Len(calls) - 1].op = "decrementGauge"
    /\ getMetrics(Store)[MaxMetrics].value = calls[Len(calls)].arg.v
    /\ getMetrics(Store)[MaxMetrics - 1].value = 0 - 30

\* C11: every mutating call appends exactly one event that carries the
\* call's name and labels: while fewer than 1000 were made since the last
\* reset, the log holds one event per call, in call order.
C11_OneEventPerCall ==
    Len(calls) < MaxMetrics =>
       /\ Len(metrics) = Len(calls)
       /\ \A i \in 1..Len(calls) :
             /\ metrics[i].name = calls[i].name
             /\ metrics[i].labels = calls[i].labels

\* a counter, a histogram and a gauge call, in this order, and three events
C11_Witness ==
    /\ Len(calls) = 3
    /\ calls[1].op = "incrementCounter"
    /\ calls[2].op = "recordHistogram"
    /\ calls[3].op = "incrementGauge"
    /\ calls[3].labels = LabelsBA
    /\ Len(metrics) = 3
    /\ metrics[3].labels = LabelsBA

----------------------------------------------------------------------------
(* The recorders.  A step is a call of recorder op when it appends a       *)
(* record of op to recs; Store is the service before the call, StoreNext   *)
(* the service after it.                                                   *)

StoreNext == [counters |-> counters', histograms |-> histograms',
              gauges |-> gauges', metrics |-> metrics']

IsCallOf(op) == Len(recs') = Len(recs) + 1 /\ recs'[Len(recs')].op = op

ArgsNext == recs'[Len(recs')].args

\* count, sum and bucket counts of a histogram, 0 while it does not exist
HistCount(s, name, labels) ==
    IF getHistogram(s, name, labels).defined
    THEN getHistogram(s, name, labels).h.count ELSE 0

HistSum(s, name, labels) ==
    IF getHistogram(s, name, labels).defined
    THEN getHistogram(s, name, labels).h.sum ELSE 0

HistBucket(s, name, labels, b) ==
    IF getHistogram(s, name, labels).defined
    THEN BucketCount(getHistogram(s, name, labels).h, b) ELSE 0

ApiLabels(endpoint, method, statusCode) ==
    Labels(<< <<<<"status_code">>, numToString(statusCode)>>,
              <<<<"method">>, method>>,
              <<<<"endpoint">>, endpoint>> >>)

\* C12: a call recordApiCall(endpoint, method, statusCode, durationMs) adds 1
\* to api_requests_total{endpoint, method, status_code}, adds one observation
\* of durationMs/1000 to api_request_duration_seconds with these labels, and
\* adds 1 to api_errors_total with these labels exactly when statusCode >= 400.
C12_RecordApiCall ==
    [][IsCallOf("recordApiCall") =>
         LET a == ArgsNext
             L == ApiLabels(a.endpoint, a.method, a.statusCode)
             req == <<"api_requests_total">>
             dur == <<"api_request_duration_seconds">>
             err == <<"api_errors_total">>
         IN /\ getCounter(StoreNext, req, L) = getCounter(Store, req, L) + Scale
            /\ HistCount(StoreNext, dur, L) = HistCount(Store, dur, L) + Scale
            /\ (HistSum(StoreNext, dur, L) - HistSum(Store, dur, L)) * 1000
                  = a.duration
            /\ \A i \in 1..Len(Bounds) :
                  HistBucket(StoreNext, dur, L, Bounds[i])
                     = HistBucket(Store, dur, L, Bounds[i])
                       + (IF Bounds[i] = Infinity
                             \/ a.duration <= Bounds[i] * 1000
                          THEN Scale ELSE 0)
            /\ getCounter(StoreNext, err, L)
                  = getCounter(Store, err, L)
                    + (IF a.statusCode >= 400 * Scale THEN Scale ELSE 0)
      ]_vars

\* a call with status 200 and then a call with status 400 were made: the
\* error counter of the second exists, that of the first does not
C12_Witness ==
    /\ Len(recs) = 2
    /\ recs[1].op = "recordApiCall" /\ recs[1].args.statusCode = 200 * Scale
    /\ recs[2].op = "recordApiCall" /\ recs[2].args.statusCode = 400 * Scale
    /\ getCounter(Store, <<"api_errors_total">>,
                  ApiLabels(<<"/users">>, <<"GET">>, 400 * Scale)) = Scale
    /\ getCounter(Store, <<"api_errors_total">>,
                  ApiLabels(<<"/users">>, <<"GET">>, 200 * Scale)) = 0
    /\ HistSum(Store, <<"api_request_duration_seconds">>,
               ApiLabels(<<"/users">>, <<"GET">>, 200 * Scale)) = 5

CacheLabels(service, type) ==
    Labels(<< <<<<"type">>, type>>, <<<<"service">>, service>> >>)

\* C13: a call recordCacheHitRate(service, hits, total) sets the gauge
\* cache_hit_rate{service} to hits/total when total > 0 and to 0 otherwise,
\* adds hits to cache_operations_total{service, type: "hit"} and total - hits
\* to cache_operations_total{service, type: "miss"}, also for hits = 0 and
\* hits = total.
C13_RecordCacheHitRate ==
    [][IsCallOf("recordCacheHitRate") =>
         LET a == ArgsNext
             S == Labels(<< <<<<"service">>, a.service>> >>)
             hit == CacheLabels(a.service, <<"hit">>)
             miss == CacheLabels(a.service, <<"miss">>)
             ops == <<"cache_operations_total">>
         IN /\ MapHas(StoreNext.gauges, getKey(<<"cache_hit_rate">>, S))
            /\ IF a.total > 0
               THEN getGauge(StoreNext, <<"cache_hit_rate">>, S) * a.total
                       = a.hits * Scale
               ELSE getGauge(StoreNext, <<"cache_hit_rate">>, S) = 0
            /\ getCounter(StoreNext, ops, hit)
                  = getCounter(Store, ops, hit) + a.hits
            /\ getCounter(StoreNext, ops, miss)
                  = getCounter(Store, ops, miss) + (a.total - a.hits)
      ]_vars

\* 0 hits of 2, then 2 hits of 2: two hits and two misses counted, rate 1
C13_Witness ==
    /\ Len(recs) = 2
    /\ recs[1].op = "recordCacheHitRate"
    /\ recs[1].args.hits = 0 /\ recs[1].args.total = 2 * Scale
    /\ recs[2].op = "recordCacheHitRate"
    /\ recs[2].args.hits = 2 * Scale /\ recs[2].args.total = 2 * Scale
    /\ getCounter(Store, <<"cache_operations_total">>,
                  CacheLabels(<<"redis">>, <<"hit">>)) = 2 * Scale
    /\ getCounter(Store, <<"cache_operations_total">>,
                  CacheLabels(<<"redis">>, <<"miss">>)) = 2 * Scale
    /\ getGauge(Store, <<"cache_hit_rate">>,
                Labels(<< <<<<"service">>, <<"redis">>>> >>)) = Scale

FileLabels(operation, fileType) ==
    Labels(<< <<<<"file_type">>, fileType>>, <<<<"operation">>, operation>> >>)

\* the calls recordFileOperation(operation, fileType, ...) made so far
FileCalls(operation, fileType) ==
    {i \in 1..Len(recs) : /\ recs[i].op = "recordFileOperation"
                          /\ recs[i].args.operation = operation
                          /\ recs[i].args.fileType = fileType}

\* C14: file_operations_total{operation, file_type} counts the calls
\* recordFileOperation(operation, fileType, size), and the histogram
\* file_size_bytes with the same labels has one observation for every call
\* that was given a size (any non-negative number), so that its count is the
\* number of calls that supplied a size.
C14_SizeObservedWheneverGiven ==
    \A operation \in FileOperations, fileType \in FileTypes :
       LET L == FileLabels(operation, fileType)
           all == FileCalls(operation, fileType)
           sized == {i \in all : recs[i].args.size.given}
       IN /\ getCounter(Store, <<"file_operations_total">>, L)
                = Cardinality(all) * Scale
          /\ HistCount(Store, <<"file_size_bytes">>, L)
                = Cardinality(sized) * Scale

----------------------------------------------------------------------------
(* The Prometheus text.  An entity is a name with a set of label pairs;    *)
(* the entities of the store are those of the events logged since the      *)
(* last reset (the log is below its capacity here).  A sample line may     *)
(* list the labels of its entity in any order.                             *)

Lines == split(getPrometheusMetrics(Store), "\n")

HasLine(line) == \E i \in 1..Len(Lines) : Lines[i] = line

TypeLine(name, kind) == <<"# TYPE ">> \o name \o <<kind>>

Orderings(S) ==
    {p \in [1..Cardinality(S) -> S] : \A i, j \in DOMAIN p : i # j => p[i] # p[j]}

LabelText(p) ==
    IF Len(p) = 0 THEN <<>>
    ELSE <<"{">> \o join([i \in 1..Len(p) |-> formatPair(p[i])], <<",">>)
         \o <<"}">>

\* the texts `name{labels} value` for a set of label pairs
SampleLines(name, labelSet, value) ==
    {name \o LabelText(p) \o <<" ">> \o numToString(value) :
        p \in Orderings(labelSet)}

HasSample(name, labelSet, value) ==
    \E line \in SampleLines(name, labelSet, value) : HasLine(line)

\* C15: the Prometheus text has, for every counter, histogram and gauge
\* entity of the store, a `# TYPE <name> <kind>` line of its kind and a
\* sample line for its name and label set whose value is what getCounter,
\* getHistogram (count, sum) and getGauge return for that name and labels.
C15_ExportShowsEveryEntity ==
    \A i \in 1..Len(metrics) :
       LET name == metrics[i].name
           labels == metrics[i].labels
           key == getKey(name, labels)
           L == LabelSet(labels)
       IN /\ MapHas(counters, key) =>
                /\ HasLine(TypeLine(name, " counter"))
                /\ HasSample(name, L, getCounter(Store, name, labels))
          /\ MapHas(histograms, key) =>
                /\ HasLine(TypeLine(name, " histogram"))
                /\ HasSample(name \o <<"_count">>, L,
                             getHistogram(Store, name, labels).h.count)
                /\ HasSample(name \o <<"_sum">>, L,
                             getHistogram(Store, name, labels).h.sum)
          /\ MapHas(gauges, key) =>
                /\ HasLine(TypeLine(name, " gauge"))
                /\ HasSample(name, L, getGauge(Store, name, labels))

BoundText(b) == IF b = Infinity THEN <<"+Inf">> ELSE numToString(b)

\* line is a bucket line of the histogram (name, labelSet) for the bound b
IsBucketLine(line, name, labelSet, b) ==
    \E p \in Orderings(labelSet \cup {<< <<"le">>, BoundText(b)>>}) :
       LET prefix == name \o <<"_bucket">> \o LabelText(p) \o <<" ">>
       IN Len(line) > Len(prefix) /\ SubSeq(line, 1, Len(prefix)) = prefix

\* C16: for every histogram entity of the store the Prometheus text has a
\* <name>_count line, a <name>_sum line and exactly one <name>_bucket line
\* for each of the seven bounds 0.1, 0.5, 1, 2.5, 5, 10 and +Inf, whatever
\* was observed.
C16_BucketLineForEveryBound ==
    \A i \in 1..Len(metrics) :
       LET name == metrics[i].name
           labels == metrics[i].labels
           L == LabelSet(labels)
       IN MapHas(histograms, getKey(name, labels)) =>
             /\ HasSample(name \o <<"_count">>, L,
                          getHistogram(Store, name, labels).h.count)
             /\ HasSample(name \o <<"_sum">>, L,
                          getHistogram(Store, name, labels).h.sum)
             /\ \A b \in 1..Len(Bounds) :
                   Cardinality({j \in 1..Len(Lines) :
                                   IsBucketLine(Lines[j], name, L, Bounds[b])})
                      = 1

\* the label sets of the counters of the family name
FamilyLabelSets(name) ==
    {LabelSet(metrics[i].labels) :
        i \in {j \in 1..Len(metrics) :
                  /\ metrics[j].name = name
                  /\ MapHas(counters, getKey(name, metrics[j].labels))}}

\* C17: for every counter family (metric name) of the store the Prometheus
\* text has one `# TYPE <name> counter` line, followed by one sample line for
\* each label set of the family: k label sets give one TYPE line and k
\* sample lines.
C17_OneTypeLinePerFamily ==
    \A i \in 1..Len(metrics) :
       LET name == metrics[i].name
           family == FamilyLabelSets(name)
           types == {j \in 1..Len(Lines) : Lines[j] = TypeLine(name, " counter")}
           samples == {j \in 1..Len(Lines) :
                          \E L \in family :
                             Lines[j] \in SampleLines(name, L,
                                             getCounter(Store, name,
                                                        Labels(CHOOSE p \in Orderings(L) : TRUE)))}
       IN family # {} =>
             /\ Cardinality(types) = 1
             /\ Cardinality(samples) = Cardinality(family)
             /\ \A j \in samples : \A k \in types : k < j

----------------------------------------------------------------------------
(* The controller's views.  A step is a request when it appends the        *)
(* request to recs; resp' is its response.                                 *)

\* f is the number a / b; f is the number 0
IsQuotient(f, a, b) == f.den # 0 /\ f.num * b = a * f.den
IsZero(f) == f.den # 0 /\ f.num = 0

\* f is sum / count of the histogram name without labels, 0 when there is
\* none or its count is 0
IsAverageOf(f, s, name) ==
    LET histogram == getHistogram(s, name, NoLabels)
    IN IF histogram.defined /\ histogram.h.count > 0
       THEN IsQuotient(f, histogram.h.sum, histogram.h.count)
       ELSE IsZero(f)

\* C18: in the summary, api.errorRate is api.totalErrors / api.totalRequests
\* * 100 when api.totalRequests > 0 and 0 when there are no requests;
\* averageResponseTime and averageOperationTime are sum / count of the
\* histograms api_request_duration_seconds and
\* database_operation_duration_seconds, 0 when the histogram is absent or its
\* count is 0.
C18_SummaryRatios ==
    [][IsCallOf("GET /metrics/summary") =>
         LET b == resp'.body
         IN /\ resp'.endpoint = "summary"
            /\ IF b.api.totalRequests > 0
               THEN IsQuotient(b.api.errorRate,
                               b.api.totalErrors * 100, b.api.totalRequests)
               ELSE IsZero(b.api.errorRate)
            /\ IsAverageOf(b.api.averageResponseTime, Store,
                           <<"api_request_duration_seconds">>)
            /\ IsAverageOf(b.database.averageOperationTime, Store,
                           <<"database_operation_duration_seconds">>)
      ]_vars

\* the summary of one request and one error: the error rate is 100
C18_Witness ==
    /\ resp.endpoint = "summary"
    /\ recs # <<>> /\ recs[Len(recs)].op = "GET /metrics/summary"
    /\ resp.body.api.totalRequests = Scale
    /\ resp.body.api.totalErrors = Scale
    /\ IsQuotient(resp.body.api.errorRate, 100, 1)

\* the value of the property key of an object, and whether it has one
HasProperty(obj, key) == \E j \in 1..Len(obj) : obj[j].k = key
Property(obj, key) == obj[CHOOSE j \in 1..Len(obj) : obj[j].k = key].v

\* C19: the health snapshot has, for every histogram of the store, an entry
\* under the same key with the same count and sum, average = sum / count (0
\* when count is 0) and the stored bucket counts, and it has every counter
\* and every gauge of the store with its current value.
C19_HealthSnapshot ==
    [][IsCallOf("GET /metrics/health") =>
         LET b == resp'.body
             s == StoreNext
         IN /\ resp'.endpoint = "health"
            /\ \A i \in 1..Len(s.histograms) :
                  LET key == s.histograms[i].k
                      h == s.histograms[i].v
                  IN /\ HasProperty(b.histograms, key)
                     /\ Property(b.histograms, key).count = h.count
                     /\ Property(b.histograms, key).sum = h.sum
                     /\ IF h.count = 0
                        THEN IsZero(Property(b.histograms, key).average)
                        ELSE IsQuotient(Property(b.histograms, key).average,
                                        h.sum, h.count)
                     /\ Len(Property(b.histograms, key).buckets) = Len(h.buckets)
                     /\ \A n \in 1..Len(h.buckets) :
                           LET text == numToString(h.buckets[n].k)
                               obj == Property(b.histograms, key).buckets
                           IN /\ HasProperty(obj, text)
                              /\ Property(obj, text) = h.buckets[n].v
            /\ Len(b.histograms) = Len(s.histograms)
            /\ \A i \in 1..Len(s.counters) :
                  /\ HasProperty(b.counters, s.counters[i].k)
                  /\ Property(b.counters, s.counters[i].k).value
                        = s.counters[i].v.value
            /\ \A i \in 1..Len(s.gauges) :
                  /\ HasProperty(b.gauges, s.gauges[i].k)
                  /\ Property(b.gauges, s.gauges[i].k) = s.gauges[i].v
      ]_vars

\* a snapshot with a histogram of two observations 0.5: count 2, sum 1,
\* average 0.5
C19_Witness ==
    /\ resp.endpoint = "health"
    /\ recs # <<>> /\ recs[Len(recs)].op = "GET /metrics/health"
    /\ HasProperty(resp.body.histograms, <<"api_request_duration_seconds">>)
    /\ LET e == Property(resp.body.histograms, <<"api_request_duration_seconds">>)
       IN /\ e.count = 2 * Scale
          /\ e.sum = Scale
          /\ IsQuotient(e.average, 1, 2)
          /\ Len(e.buckets) = 6

MemoryGauges ==
    << <<<<"nodejs_memory_heap_used_bytes">>, "heapUsed">>,
       <<<<"nodejs_memory_heap_total_bytes">>, "heapTotal">>,
       <<<<"nodejs_memory_rss_bytes">>, "rss">>,
       <<<<"nodejs_memory_external_bytes">>, "external">> >>

\* C20: a GET /metrics/health request records the memory usage and then
\* takes the snapshot: the gauges it returns have the four memory gauges
\* with the sample taken in this request.  GET /metrics and
\* GET /metrics/summary take no sample: they leave the service as it is.
C20_HealthSamplesMemoryFirst ==
    [][/\ IsCallOf("GET /metrics/health") =>
             /\ resp'.endpoint = "health"
             /\ \A g \in 1..Len(MemoryGauges) :
                   /\ HasProperty(resp'.body.gauges, MemoryGauges[g][1])
                   /\ Property(resp'.body.gauges, MemoryGauges[g][1])
                         = ArgsNext.usage[MemoryGauges[g][2]]
       /\ IsCallOf("GET /metrics") \/ IsCallOf("GET /metrics/summary") =>
             /\ resp'.endpoint \in {"metrics", "summary"}
             /\ StoreNext = Store
      ]_vars

\* two health requests with different samples: the second response has the
\* second sample
C20_Witness ==
    /\ Len(recs) = 2
    /\ recs[1].op = "GET /metrics/health" /\ recs[1].args.usage.rss = 500 * Scale
    /\ recs[2].op = "GET /metrics/health" /\ recs[2].args.usage.rss = 520 * Scale
    /\ resp.endpoint = "health"
    /\ Property(resp.body.gauges, <<"nodejs_memory_rss_bytes">>) = 520 * Scale
    /\ Property(resp.body.gauges, <<"nodejs_memory_heap_used_bytes">>) = 310 * Scale

----------------------------------------------------------------------------
(* Concurrent handlers *)

AllDone == \A h \in HandlerIds : handlers[h].pc > Len(handlers[h].script)

\* the sum over the handlers' calls of what each call adds
ScriptTotal(amountOf(_)) ==
    LET perHandler == [h \in 1..Cardinality(HandlerIds) |->
           SumRange([i \in 1..Len(handlers[h].script) |->
                        amountOf(handlers[h].script[i])],
                    1, Len(handlers[h].script))]
    IN SumRange(perHandler, 1, Cardinality(HandlerIds))

CounterDelta(c) == IF c.op = "incrementCounter" THEN Amount(c.arg) ELSE 0

GaugeDelta(c) ==
    IF c.op = "incrementGauge" THEN Amount(c.arg)
    ELSE IF c.op = "decrementGauge" THEN 0 - Amount(c.arg)
    ELSE 0

\* C21: when concurrent handlers interleave their calls on one canonical
\* key, no update is lost: after all handlers have finished the counter is
\* the sum of all deltas and the gauge, changed only by incrementGauge and
\* decrementGauge, is the net of all amounts, for every interleaving.
C21_NoLostUpdate ==
    AllDone =>
       /\ getCounter(Store, <<"m">>, LabelsAB) = ScriptTotal(CounterDelta)
       /\ getGauge(Store, <<"m">>, LabelsAB) = ScriptTotal(GaugeDelta)

\* two handlers of two calls each have finished, the calls of the second
\* between the calls of the first
C21_Witness ==
    /\ AllDone
    /\ handlers[1].script = <<Call("incrementCounter", <<"m">>, LabelsAB, Omitted),
                              Call("incrementGauge", <<"m">>, LabelsBA, Omitted)>>
    /\ handlers[2].script = <<Call("decrementGauge", <<"m">>, LabelsAB, Given(30)),
                              Call("incrementCounter", <<"m">>, LabelsBA, Given(20))>>
    /\ calls = <<handlers[1].script[1], handlers[2].script[1],
                 handlers[2].script[2], handlers[1].script[2]>>
    /\ getCounter(Store, <<"m">>, LabelsBA) = 30
    /\ getGauge(Store, <<"m">>, LabelsBA) = 0 - 20

\* C22: a counter is monotonic: between two resets the value getCounter
\* returns for an entity never decreases, whatever recorder or store call is
\* made, the miss counter written by recordCacheHitRate included.
C22_CounterMonotonic ==
    [][\A i \in 1..Len(counters') :
          LET key == counters'[i].k
          IN counters'[i].v.value
                >= (IF MapHas(counters, key) THEN MapGet(counters, key).value
                    ELSE 0)
      ]_vars

----------------------------------------------------------------------------
(* The canonical key *)

\* C23: the empty label map is the same as no labels: for counters,
\* histograms and gauges a call with {} and a call without labels address the
\* one unlabelled entity, stored under the bare name.
C23_EmptyLabelsAreNoLabels ==
    \A t \in KeyTargets :
       LET name == t[1]
       IN /\ getKey(name, EmptyLabels) = name
          /\ getKey(name, NoLabels) = name
          /\ getCounter(Store, name, EmptyLabels) = getCounter(Store, name, NoLabels)
          /\ getHistogram(Store, name, EmptyLabels) = getHistogram(Store, name, NoLabels)
          /\ getGauge(Store, name, EmptyLabels) = getGauge(Store, name, NoLabels)
          /\ name = <<"m">> =>
                /\ getCounter(Store, name, NoLabels) = ExpectedCounter(name, NoLabels)
                /\ HistCount(Store, name, NoLabels)
                      = Scale * Cardinality(CallsOn("recordHistogram", name, NoLabels))
                /\ getGauge(Store, name, EmptyLabels) = ExpectedGauge(name, EmptyLabels)
                /\ \A i \in 1..Len(calls) :
                      SameEntity(calls[i], name, NoLabels) =>
                         name \in MapKeys(counters) \cup MapKeys(histograms)
                                    \cup MapKeys(gauges)

\* incrementCounter(m, {}) and incrementCounter(m): one counter m of value 2
C23_Witness ==
    /\ Len(calls) = 2
    /\ calls[1] = Call("incrementCounter", <<"m">>, EmptyLabels, Omitted)
    /\ calls[2] = Call("incrementCounter", <<"m">>, NoLabels, Omitted)
    /\ Len(counters) = 1
    /\ counters[1].k = <<"m">>
    /\ getCounter(Store, <<"m">>, NoLabels) = 2 * Scale

\* C30: the canonical key is injective: two calls whose name or set of label
\* pairs differ never address the same entity, also when names or label
\* values contain the characters | , = " of the key's syntax.
C30_KeyInjective ==
    \A i, j \in 1..Len(calls) :
       ~SameEntity(calls[i], calls[j].name, calls[j].labels) =>
          getKey(calls[i].name, calls[i].labels)
             # getKey(calls[j].name, calls[j].labels)

----------------------------------------------------------------------------
(* Entities apart *)

\* the kind of metric a call writes
KindOf(op) ==
    IF op = "incrementCounter" THEN "counter"
    ELSE IF op = "recordHistogram" THEN "histogram"
    ELSE "gauge"

\* what the store holds for an entity of a kind: whether it exists, and its
\* value
Held(s, kind, name, labels) ==
    LET key == getKey(name, labels)
    IN IF kind = "counter"
       THEN [present |-> MapHas(s.counters, key),
             value |-> <<getCounter(s, name, labels)>>]
       ELSE IF kind = "histogram"
       THEN [present |-> MapHas(s.histograms, key),
             value |-> <<getHistogram(s, name, labels)>>]
       ELSE [present |-> MapHas(s.gauges, key),
             value |-> <<getGauge(s, name, labels)>>]

\* C24: a mutating call on one entity leaves every other entity as it is:
\* the entities of the same name with another label set, the entities of
\* another name, and the entities of the other two kinds.
C24_OtherEntitiesUnchanged ==
    [][Len(calls') = Len(calls) + 1 =>
         LET c == calls'[Len(calls')]
         IN \A kind \in {"counter", "histogram", "gauge"},
               name \in FrameNames, labels \in FrameLabelArgs :
               ~(kind = KindOf(c.op) /\ SameEntity(c, name, labels)) =>
                  Held(StoreNext, kind, name, labels)
                     = Held(Store, kind, name, labels)
      ]_vars

\* the histogram m{k="1"} has one observation and then m{k="2"} gets one:
\* each has its own
C24_Witness ==
    /\ Len(calls) = 2
    /\ calls[1] = Call("recordHistogram", <<"m">>, LabelsK, Given(5))
    /\ calls[2] = Call("recordHistogram", <<"m">>, LabelsK2, Given(5))
    /\ HistCount(Store, <<"m">>, LabelsK) = Scale
    /\ HistCount(Store, <<"m">>, LabelsK2) = Scale
    /\ HistCount(Store, <<"m">>, NoLabels) = 0
    /\ HistCount(Store, <<"n">>, LabelsK) = 0
    /\ getCounter(Store, <<"m">>, LabelsK2) = 0

----------------------------------------------------------------------------
(* Lifecycle *)

\* the entries the step adds to a map
NewKeys(before, after) == MapKeys(after) \ MapKeys(before)

\* C25: an entity is created only by the first write to its key and removed
\* only by reset(): a call other than reset keeps every counter, histogram
\* and gauge present (also when it evicts events from the full log) and adds
\* at most the entity it writes; reset empties the three maps and the event
\* log together.
C25_EntitiesLiveUntilReset ==
    [][IF calls' = <<>>
       THEN /\ counters' = <<>> /\ histograms' = <<>> /\ gauges' = <<>>
            /\ metrics' = <<>>
       ELSE LET c == calls'[Len(calls')]
                kind == KindOf(c.op)
                created == NewKeys(counters, counters')
                              \cup NewKeys(histograms, histograms')
                              \cup NewKeys(gauges, gauges')
            IN /\ MapKeys(counters) \subseteq MapKeys(counters')
               /\ MapKeys(histograms) \subseteq MapKeys(histograms')
               /\ MapKeys(gauges) \subseteq MapKeys(gauges')
               /\ kind # "counter" => NewKeys(counters, counters') = {}
               /\ kind # "histogram" => NewKeys(histograms, histograms') = {}
               /\ kind # "gauge" => NewKeys(gauges, gauges') = {}
               /\ Cardinality(created) <= 1
               /\ created # {} =>
                     /\ ~Held(Store, kind, c.name, c.labels).present
                     /\ Held(StoreNext, kind, c.name, c.labels).present
      ]_vars

\* the full log has evicted an event: the counter written first and the
\* gauge written before the eviction are still there
C25_Witness ==
    /\ Len(calls) = MaxMetrics + 1
    /\ Len(metrics) = MaxMetrics
    /\ calls[MaxMetrics].op = "setGauge"
    /\ calls[MaxMetrics + 1].op = "recordHistogram"
    /\ MapHas(counters, WarmName)
    /\ Len(gauges) = 1
    /\ Len(histograms) = 1

----------------------------------------------------------------------------
(* Readers *)

\* C26: the readers getCounter, getGauge, getHistogram, getMetrics,
\* getPrometheusMetrics and getHealthMetrics leave the counters, histograms,
\* gauges and the event log as they are; reading an absent key creates no
\* entity and appends no event.
C26_ReadersChangeNothing ==
    [][(Len(recs') = Len(recs) + 1 /\ recs'[Len(recs')].op \in ReadOps) =>
          /\ StoreNext = Store
          /\ resp'.endpoint = recs'[Len(recs')].op
      ]_vars

\* after one write of a gauge, the counter m, which does not exist, was
\* read as 0: there is still no counter and only the event of the write
C26_Witness ==
    /\ Len(calls) = 1 /\ calls[1].op = "setGauge"
    /\ Len(recs) = 1 /\ recs[1].op = "getCounter"
    /\ resp.endpoint = "getCounter" /\ resp.body = 0
    /\ counters = <<>>
    /\ Len(gauges) = 1
    /\ Len(metrics) = 1

----------------------------------------------------------------------------
(* The summary's totals *)

\* the recorder calls of op made so far
RecsOf(op) == {i \in 1..Len(recs) : recs[i].op = op}

\* C27: when the summary is requested after recordApiCall calls,
\* api.totalRequests is the number of those calls over all label sets and
\* api.totalErrors the number of those with statusCode >= 400; likewise
\* database.totalOperations and files.totalOperations are the numbers of
\* recordDatabaseOperation and recordFileOperation calls.
C27_SummaryTotalsCountCalls ==
    [][IsCallOf("GET /metrics/summary") =>
         LET b == resp'.body
         IN /\ b.api.totalRequests = Scale * Cardinality(RecsOf("recordApiCall"))
            /\ b.api.totalErrors
                  = Scale * Cardinality({i \in RecsOf("recordApiCall") :
                                            recs[i].args.statusCode >= 400 * Scale})
            /\ b.database.totalOperations
                  = Scale * Cardinality(RecsOf("recordDatabaseOperation"))
            /\ b.files.totalOperations
                  = Scale * Cardinality(RecsOf("recordFileOperation"))
      ]_vars

\* C28: when the summary is requested after recordAuthEvent('login', success)
\* calls, auth.successfulLogins is the number of calls with success true,
\* auth.failedLogins the number with success false, and
\* auth.totalLoginAttempts is their sum.
C28_LoginTotals ==
    [][IsCallOf("GET /metrics/summary") =>
         LET b == resp'.body
             logins == {i \in RecsOf("recordAuthEvent") :
                           recs[i].args.event = <<"login">>}
         IN /\ b.auth.successfulLogins
                  = Scale * Cardinality({i \in logins : recs[i].args.success})
            /\ b.auth.failedLogins
                  = Scale * Cardinality({i \in logins : ~recs[i].args.success})
            /\ b.auth.totalLoginAttempts
                  = b.auth.successfulLogins + b.auth.failedLogins
      ]_vars

----------------------------------------------------------------------------
(* Exported values *)

\* C29: a value returned by getHealthMetrics or getMetrics is a snapshot:
\* whatever incrementCounter, recordHistogram, setGauge or reset calls are
\* made after it was returned, its holder reads in it what it held when it
\* was returned.
C29_ExportsAreSnapshots == held.value = held.returned
====
